---- MODULE Spec2Model ----
(***************************************************************************)
(* A model of sportsbet/automerger-action (src/src/main.ts, src/src/git.ts *)
(* and the compiled git module src/unnamed/part_001).                      *)
(*                                                                         *)
(* One invocation of the action is a sequential process; pc is its         *)
(* position.  Every await on the hosting platform or on a git command is   *)
(* one step, whose result (a response, an exit status, a thrown error) is  *)
(* chosen by the environment.  The platform's statuses and comments        *)
(* persist between invocations.                                            *)
(***************************************************************************)
EXTENDS Integers, Sequences, FiniteSets, TLC

(***************************************************************************)
(* Bounds of the model.                                                    *)
(***************************************************************************)
\* the longest list of open pull requests the platform returns to a push
MaxPRs == 2
\* the largest retry budget a direct call of checkMergeability is given
MaxRetriesArg == 3
\* the number of direct calls of checkRollupToMaster in a row
MaxChecks == 3
\* the number of statuses other parties add to a commit
MaxForeign == 1
\* the longest list of refs mergeBase is called with
MaxRefs == 3
\* the largest budget, in ticks of the clock, fetchUntilMergeBase is given
MaxTimeout == 3
\* the largest number of parents of a commit between the branch and HEAD
MaxParents == 2
\* the largest number of commits between the branch and HEAD that rev-list prints
MaxLines == 2
\* the largest number of calls of abortMerge in a row
MaxAborts == 3

(***************************************************************************)
(* Program constants.                                                      *)
(***************************************************************************)
MAX_PR_COUNT == 10
DEFAULT_RETRIES == 3
PROBE_DELAY_MS == 2000
MERGE_RETRIES == 3
MERGE_SLEEP_MS == 10000

VALID_EVENTS == {"push", "status", "pull_request", "pull_request_review"}

\* the list of onPR with the action closed added
RELEVANT_PR_ACTIONS_WithClosed ==
    {"labeled", "unlabeled", "synchronize", "opened", "edited",
     "ready_for_review", "reopened", "unlocked", "closed"}

RELEVANT_PR_ACTIONS ==
    {"labeled", "unlabeled", "synchronize", "opened", "edited",
     "ready_for_review", "reopened", "unlocked"}

statusContext == "Sportsbot: release to master automerge"

(***************************************************************************)
(* Strings the code takes prefixes of are sequences of tokens, so that     *)
(* startsWith is computed and not assumed.                                 *)
(***************************************************************************)
startsWith(s, p) == Len(s) >= Len(p) /\ SubSeq(s, 1, Len(p)) = p

Min(a, b) == IF a < b THEN a ELSE b

RefMaster     == <<"master">>
RefRelease    == <<"release">>
RefReleaseIos == <<"release-ios">>
RefReleaseWeb == <<"release-web">>
RefReleases   == <<"releases/", "2024-01">>
RefReleasesNoSlash == <<"releases">>
RefDevelop    == <<"develop">>
RefFeature    == <<"feature/", "login">>
RefFixPr      == <<"feature/", "fix-pr-", "7">>

\* the values the environment draws from
BaseRefs == {RefMaster, RefRelease, RefReleaseIos, RefReleaseWeb, RefReleases,
             RefReleasesNoSlash, RefDevelop}
HeadRefs == {RefFeature, RefFixPr}
\* the branches a push event names
PushBranches == {RefMaster, RefReleases, RefDevelop}
Shas == {"sha-a", "sha-b"}
LabelSets == {{}, {"Automerge"}, {"automerge", "bug"}}
Mergeables == {"null", "true", "false"}
MergeableStates == {"clean", "unstable", "dirty"}
PayloadActions == {"labeled", "submitted", "closed"}
ReviewStates == {"approved", "commented"}
\* results of one run of the git command: exit status 0, a non-zero exit
\* status (ExitError), or a failure to start the process (Error)
GitResults == {"0", "1", "128", "spawn"}
\* results of one call of the platform: a response, or a thrown error
ApiResults == {"ok", "throw"}
\* results of the merge endpoint: a response status, or a thrown error
MergeResponses == {"200", "405", "throw"}
\* lists of statuses found on a commit at the start, newest first
Failure(ctx) == [context |-> ctx, state |-> "failure"]
InitStatusLists ==
    { <<>>,
      <<Failure(statusContext)>>,
      <<Failure(statusContext), Failure(statusContext)>> }
ForeignStatuses ==
    { [context |-> "ci/build", state |-> "failure"],
      [context |-> statusContext, state |-> "error"],
      [context |-> statusContext, state |-> "success"] }

NumStr(n) == <<"1", "2", "3", "4", "5">>[n]

NoPull == [number |-> 0]
\* no call of the functions of git.ts that look for a merge base is made
Idle == [pc |-> "idle"]
\* no asynchronous call has been started
NoCall == [op |-> "none", pr |-> 0, n |-> 0]
NoCalls == [running |-> {}, returned |-> NoCall]
Undefined == [kind |-> "undefined"]

VARIABLES
    pc,          \* the position of the invocation
    event,       \* the webhook event: its name and the payload fields read
    envOK,       \* whether the required inputs and environment are set
    caller,      \* the handler that called checkMergeability
    prList,      \* the pull request numbers to process, in order
    idx,         \* the index in prList of the pull request being processed
    retries,     \* checkMergeability: the retries left
    budget,      \* checkMergeability: the retries the first call was given
    pull,        \* the data of the last read of the pull request
    probeLog,    \* checkMergeability: the reads and delays of this call
    mergeMethod, \* automerge: the merge method chosen
    title,       \* automerge: the commit title chosen
    mergeMsg,    \* checkRollupToMaster: the result of canMergeCleanly
    myStatuses,  \* checkRollupToMaster: the statuses of this system's context
    run,         \* retry: the number of retries made
    trace,       \* the effects made for the current pull request, in order
    prResult,    \* how the processing of the current pull request ended
    results,     \* onPush: the result of every pull request processed
    updated,     \* onPush: the counter of pull requests updated
    errorLog,    \* the number of error-level log entries written
    statuses,    \* platform: the statuses of every commit, newest first
    checks,      \* the completed direct calls of checkRollupToMaster, oldest first
    foreign,     \* the number of statuses added by other parties
    exitCode,    \* the exit code of the process, -1 while it runs
    final,       \* how the invocation ended
    locator,     \* git.ts: the state of a call of mergeBase or fetchUntilMergeBase
    calls        \* the asynchronous calls started: those running, the one returned

vars == <<pc, event, envOK, caller, prList, idx, retries, budget, pull, probeLog,
          mergeMethod, title, mergeMsg, myStatuses, run, trace, prResult,
          results, updated, errorLog, statuses, checks, foreign, exitCode, final,
          locator, calls>>

\* the variables of one invocation's locals
locals == <<retries, budget, pull, probeLog, mergeMethod, title, mergeMsg,
            myStatuses, run, trace, prResult>>

InitLocals ==
    /\ retries = 0
    /\ budget = 0
    /\ pull = NoPull
    /\ probeLog = <<>>
    /\ mergeMethod = "merge"
    /\ title = Undefined
    /\ mergeMsg = "unset"
    /\ myStatuses = <<>>
    /\ run = 0
    /\ trace = <<>>
    /\ prResult = "none"

Events ==
    {[name |-> n, action |-> "none", review |-> "none", refIsBranch |-> TRUE,
      hasOwner |-> TRUE, branch |-> RefMaster] : n \in {"status", "issues"}}
    \cup
    {[name |-> "pull_request", action |-> a, review |-> "none", refIsBranch |-> TRUE,
      hasOwner |-> TRUE, branch |-> RefMaster] : a \in PayloadActions}
    \cup
    {[name |-> "pull_request_review", action |-> a, review |-> r, refIsBranch |-> TRUE,
      hasOwner |-> TRUE, branch |-> RefMaster] : a \in PayloadActions, r \in ReviewStates}
    \cup
    {[name |-> "push", action |-> "none", review |-> "none", refIsBranch |-> b,
      hasOwner |-> o, branch |-> RefMaster] : b \in BOOLEAN, o \in BOOLEAN}
    \cup
    {[name |-> "push", action |-> "none", review |-> "none", refIsBranch |-> TRUE,
      hasOwner |-> TRUE, branch |-> r] : r \in PushBranches}

Init ==
    /\ pc = "run"
    /\ event \in Events
    /\ envOK \in BOOLEAN
    /\ caller = "none"
    /\ prList = <<>>
    /\ idx = 0
    /\ InitLocals
    /\ results = <<>>
    /\ updated = 0
    /\ errorLog = 0
    /\ \E l \in InitStatusLists : statuses = [s \in Shas |-> l]
    /\ checks = <<>>
    /\ foreign = 0
    /\ exitCode = -1
    /\ final = "running"
    /\ locator = Idle
    /\ calls = NoCalls

(***************************************************************************)
(* Ending the process.  run and makeGeneralHandler exit with 0 on a        *)
(* NoError and with 1 on any other error; a handler that returns makes     *)
(* runGitHubAction throw NoError.                                          *)
(***************************************************************************)
\* run and makeGeneralHandler exiting with 0 whatever was thrown
ExitCodeOf_Zero(thrown) == 0

ExitCodeOf(thrown) == IF thrown = "NoError" THEN 0 ELSE 1

Exit(thrown) ==
    /\ pc' = "exit"
    /\ exitCode' = ExitCodeOf(IF thrown = "returned" THEN "NoError" ELSE thrown)
    /\ final' = thrown

(***************************************************************************)
(* main.ts, run and runGitHubAction: the inputs and environment are read   *)
(* (a missing one is a ClientError), then the event is dispatched to its   *)
(* handler, and an event outside VALID_EVENTS is a ClientError.            *)
(***************************************************************************)
HandlerOf(name) ==
    CASE name = "pull_request" -> "onPR"
      [] name = "pull_request_review" -> "onPRReview"
      [] name = "status" -> "onStatus"
      [] name = "push" -> "onPush"
      [] OTHER -> "none"

Run ==
    /\ pc = "run"
    /\ IF ~envOK \/ event.name \notin VALID_EVENTS
       THEN Exit("Error")
       ELSE /\ pc' = HandlerOf(event.name)
            /\ UNCHANGED <<exitCode, final>>
    /\ UNCHANGED <<event, envOK, caller, prList, idx, locals, results, updated,
                   errorLog, statuses, checks, foreign, locator, calls>>

\* onPR up to its first await
OnPR ==
    /\ pc = "onPR"
    /\ IF event.action \notin RELEVANT_PR_ACTIONS
       THEN Exit("NoError") /\ UNCHANGED <<caller, prList>>
       ELSE /\ pc' = "authenticate"
            /\ caller' = "onPR"
            /\ prList' = <<3>>
            /\ UNCHANGED <<exitCode, final>>
    /\ UNCHANGED <<event, envOK, idx, locals, results, updated, errorLog,
                   statuses, checks, foreign, locator, calls>>

\* onPRReview up to its first await
OnPRReview ==
    /\ pc = "onPRReview"
    /\ IF event.action = "submitted" /\ event.review = "approved"
       THEN /\ pc' = "authenticate"
            /\ caller' = "onPRReview"
            /\ prList' = <<3>>
            /\ UNCHANGED <<exitCode, final>>
       ELSE Exit("NoError") /\ UNCHANGED <<caller, prList>>
    /\ UNCHANGED <<event, envOK, idx, locals, results, updated, errorLog,
                   statuses, checks, foreign, locator, calls>>

\* onStatus does nothing and returns
OnStatus ==
    /\ pc = "onStatus"
    /\ Exit("returned")
    /\ UNCHANGED <<event, envOK, caller, prList, idx, locals, results, updated,
                   errorLog, statuses, checks, foreign, locator, calls>>

\* onPush up to the list call
OnPush ==
    /\ pc = "onPush"
    /\ IF ~event.refIsBranch \/ ~event.hasOwner
       THEN Exit("NoError")
       ELSE pc' = "list" /\ UNCHANGED <<exitCode, final>>
    /\ UNCHANGED <<event, envOK, caller, prList, idx, locals, results, updated,
                   errorLog, statuses, checks, foreign, locator, calls>>

\* the numbers of the n pull requests listed, most recently updated first
PushList(n) == [i \in 1..n |-> n + 1 - i]

\* onPush: pulls.list with per_page MAX_PR_COUNT, and the empty-list exit
ListPRs ==
    /\ pc = "list"
    /\ \E r \in ApiResults :
         IF r = "throw"
         THEN Exit("Error") /\ UNCHANGED <<caller, prList>>
         ELSE \E n \in 0..Min(MaxPRs, MAX_PR_COUNT) :
                IF n = 0
                THEN Exit("NoError") /\ UNCHANGED <<caller, prList>>
                ELSE /\ pc' = "authenticate"
                     /\ caller' = "onPush"
                     /\ prList' = PushList(n)
                     /\ UNCHANGED <<exitCode, final>>
    /\ UNCHANGED <<event, envOK, idx, locals, results, updated, errorLog,
                   statuses, checks, foreign, locator, calls>>

\* authenticate, then the first call of checkMergeability with the default
\* retry budget
Authenticate ==
    /\ pc = "authenticate"
    /\ \E r \in ApiResults :
         IF r = "throw"
         THEN Exit("Error") /\ UNCHANGED <<idx, retries, budget>>
         ELSE /\ pc' = "checkMergeability"
              /\ idx' = 1
              /\ retries' = DEFAULT_RETRIES
              /\ budget' = DEFAULT_RETRIES
              /\ UNCHANGED <<exitCode, final>>
    /\ UNCHANGED <<event, envOK, caller, prList, pull, probeLog, mergeMethod,
                   title, mergeMsg, myStatuses, run, trace, prResult, results,
                   updated, errorLog, statuses, checks, foreign, locator, calls>>

(***************************************************************************)
(* The end of the processing of one pull request: it returned, or threw a  *)
(* NoError, an Error object, or a bare string.                             *)
(***************************************************************************)
PRDone(how) ==
    /\ pc' = "pr_done"
    /\ prResult' = how

(***************************************************************************)
(* main.ts, checkMergeability.  A read that shows mergeable null or a      *)
(* state other than clean is repeated after a delay while retries remain.  *)
(* The data returned is that of the last read.  The code looks only at     *)
(* mergeable and mergeable_state of a read it repeats, so holding the      *)
(* other fields of the repeated reads equal to those of the first          *)
(* (SameAsRead) leaves the states reached the same; NewCommits lets the    *)
(* head commit change between the reads.                                   *)
(***************************************************************************)
\* the pull requests the platform may serve for an event: a push lists the
\* open pull requests whose base is the branch pushed to
ServedPulls(ev) ==
    [labels : LabelSets,
     base : IF ev.name = "push" THEN {ev.branch} ELSE BaseRefs,
     head : HeadRefs,
     sha : Shas]

\* the pull request served to a direct call of checkMergeability
ProbePulls ==
    [labels : {{"Automerge"}}, base : {RefMaster}, head : {RefFeature}, sha : {"sha-a"}]

\* what the platform serves for a repeated read
SameAsRead ==
    {[labels |-> pull.labels, base |-> pull.base, head |-> pull.head, sha |-> pull.sha]}

NewCommits ==
    {[labels |-> pull.labels, base |-> pull.base, head |-> pull.head, sha |-> s] :
        s \in Shas}

Served(first, again) == IF pull = NoPull THEN first ELSE again

PullOf(number, st, m, ms) ==
    [number |-> number, title |-> "Fix login", labels |-> st.labels,
     base |-> st.base, head |-> st.head, sha |-> st.sha,
     mergeable |-> m, mergeable_state |-> ms]

\* checkMergeability retrying only when both conditions hold
mustRetry_And(data, left) ==
    (data.mergeable = "null" /\ data.mergeable_state # "clean") /\ left > 0

\* checkMergeability giving up one retry early
mustRetry_OneLess(data, left) ==
    (data.mergeable = "null" \/ data.mergeable_state # "clean") /\ left > 1

\* checkMergeability reading once more after the retries are used up
mustRetry_OneMore(data, left) ==
    (data.mergeable = "null" \/ data.mergeable_state # "clean") /\ left > -1

\* whether checkMergeability asks for another read
mustRetry(data, left) ==
    (data.mergeable = "null" \/ data.mergeable_state # "clean") /\ left > 0

\* the entry a read leaves in the log of the call: nothing but the read, the
\* verdict it showed, or the head commit it showed
ReadEntry(track, data) ==
    CASE track = "verdict" ->
           [op |-> "read", mergeable |-> data.mergeable, state |-> data.mergeable_state]
      [] track = "sha" -> [op |-> "read", sha |-> data.sha]
      [] OTHER -> [op |-> "read"]

ProbeReturn == IF caller = "direct" THEN "probe_returned" ELSE "processPR"

CheckMergeabilityRead(track, served) ==
    /\ pc = "checkMergeability"
    /\ \E r \in ApiResults :
         IF r = "throw"
         THEN PRDone("Error") /\ UNCHANGED <<pull, probeLog>>
         ELSE \E st \in served, m \in Mergeables, ms \in MergeableStates :
                LET data == PullOf(prList[idx], st, m, ms) IN
                /\ pull' = data
                /\ probeLog' = Append(probeLog, ReadEntry(track, data))
                /\ pc' = IF mustRetry(data, retries) THEN "probe_delay" ELSE ProbeReturn
                /\ UNCHANGED prResult
    /\ UNCHANGED <<event, envOK, caller, prList, idx, retries, budget, mergeMethod,
                   title, mergeMsg, myStatuses, run, trace, results, updated,
                   errorLog, statuses, checks, foreign, exitCode, final, locator, calls>>

\* delay(2000), then the recursive call with retries - 1
CheckMergeabilityDelay ==
    /\ pc = "probe_delay"
    /\ probeLog' = Append(probeLog, [op |-> "delay", ms |-> PROBE_DELAY_MS])
    /\ retries' = retries - 1
    /\ pc' = "checkMergeability"
    /\ UNCHANGED <<event, envOK, caller, prList, idx, budget, pull, mergeMethod,
                   title, mergeMsg, myStatuses, run, trace, prResult, results,
                   updated, errorLog, statuses, checks, foreign, exitCode, final, locator, calls>>

(***************************************************************************)
(* main.ts, isMergingIntoRelease and processPR.                            *)
(***************************************************************************)
\* isMergingIntoRelease taking master for a release branch too
isMergingIntoRelease_AlsoMaster(pr) ==
    \/ pr.base = RefMaster
    \/ pr.base = RefReleaseIos
    \/ pr.base = RefReleaseWeb
    \/ pr.base = RefRelease
    \/ startsWith(pr.base, <<"releases/">>)
isMergingIntoRelease(pr) ==
    \/ pr.base = RefReleaseIos
    \/ pr.base = RefReleaseWeb
    \/ pr.base = RefRelease
    \/ startsWith(pr.base, <<"releases/">>)

\* processPR without the check of the label
processPRChecks_NoLabel(pr) ==
    IF pr.mergeable_state # "clean" /\ pr.mergeable_state # "unstable"
    THEN "skip"
    ELSE IF pr.base # RefMaster /\ ~isMergingIntoRelease(pr)
    THEN "skip"
    ELSE "automerge"

\* processPR without the check of the mergeability state
processPRChecks_NoState(pr) ==
    IF "Automerge" \notin pr.labels
    THEN "skip"
    ELSE IF pr.base # RefMaster /\ ~isMergingIntoRelease(pr)
    THEN "skip"
    ELSE "automerge"

\* the three checks of processPR, in order: "skip" is a thrown NoError
processPRChecks(pr) ==
    IF pr.mergeable_state # "clean" /\ pr.mergeable_state # "unstable"
    THEN "skip"
    ELSE IF "Automerge" \notin pr.labels
    THEN "skip"
    ELSE IF pr.base # RefMaster /\ ~isMergingIntoRelease(pr)
    THEN "skip"
    ELSE "automerge"

ProcessPR ==
    /\ pc = "processPR"
    /\ IF processPRChecks(pull) = "skip"
       THEN PRDone("NoError")
       ELSE pc' = "automerge" /\ UNCHANGED prResult
    /\ UNCHANGED <<event, envOK, caller, prList, idx, retries, budget, pull,
                   probeLog, mergeMethod, title, mergeMsg, myStatuses, run, trace,
                   results, updated, errorLog, statuses, checks, foreign,
                   exitCode, final, locator, calls>>

(***************************************************************************)
(* main.ts, automerge up to its first await: the merge method and the      *)
(* commit title, then the release branch or the master branch path.        *)
(***************************************************************************)
FixPrPrefix == <<"feature/", "fix-pr-">>

\* automerge as it was before the fix-pr branches: every pull request into
\* master is squashed
squashes_NoFixPr(pr) == pr.base = RefMaster

\* automerge exempting only the branch feature/fix-pr-<number> of the pull
\* request itself
squashes_OwnNumber(pr) ==
    pr.base = RefMaster /\ pr.head # FixPrPrefix \o <<NumStr(pr.number)>>

squashes(pr) == pr.base = RefMaster /\ ~startsWith(pr.head, FixPrPrefix)

mergeMethodOf(pr) == IF squashes(pr) THEN "squash" ELSE "merge"

titleOf(pr) ==
    IF squashes(pr)
    THEN [kind |-> "string", text |-> <<pr.title, " (#", NumStr(pr.number), ")">>]
    ELSE Undefined

Automerge ==
    /\ pc = "automerge"
    /\ mergeMethod' = mergeMethodOf(pull)
    /\ title' = titleOf(pull)
    /\ run' = 0
    /\ pc' = IF isMergingIntoRelease(pull) THEN "setGitRemoteToAppPermission"
             ELSE "mergePR"
    /\ UNCHANGED <<event, envOK, caller, prList, idx, retries, budget, pull,
                   probeLog, mergeMsg, myStatuses, trace, prResult, results,
                   updated, errorLog, statuses, checks, foreign, exitCode, final, locator, calls>>

(***************************************************************************)
(* git.ts.  One git command either exits with status 0, or is rejected     *)
(* with an ExitError (a non-zero status) or an Error (the process did not  *)
(* start).  The functions below are computed from the results of the       *)
(* commands they run, in the order they run them.                          *)
(***************************************************************************)
GitCmd(cmd, r) == [cmd |-> cmd, res |-> r]

\* an entry of the trace: a function of git.ts was called and returned ret
GitCall(fn, ret) == [op |-> "git", fn |-> fn, ret |-> ret]

isExitError(r) == r \in {"1", "128"}

\* abortMerge without its catch block: every failed abort raises
abortMergeThrows_NoCatch(r) == r # "0"

\* abortMerge swallows the ExitError with code 128 and raises anything else
abortMergeThrows(r) == r # "0" /\ ~(isExitError(r) /\ r = "128")

\* canMergeCleanly(dir, "master", head): ret is "null" (clean), "text" (the
\* output of the failed command) or "throw"; cmds are the commands run
canMergeCleanly(s) ==
    LET c1 == <<GitCmd("checkout", s.checkout)>>
        c2 == Append(c1, GitCmd("pull --no-commit", s.pull))
        c3 == Append(c2, GitCmd("fetch", s.fetch))
        c4 == Append(c3, GitCmd("merge --no-commit", s.merge))
        c5 == Append(c4, GitCmd("merge --abort", s.abort))
        c6 == Append(c5, GitCmd("merge --abort", s.abort2))
    IN  IF s.checkout # "0" THEN [ret |-> "throw", cmds |-> c1]
        ELSE IF s.pull # "0" THEN [ret |-> "throw", cmds |-> c2]
        ELSE IF s.fetch # "0" THEN [ret |-> "throw", cmds |-> c3]
        ELSE IF s.merge = "0"
        THEN \* the abort of the exploratory merge is inside the try block
             IF ~abortMergeThrows(s.abort) THEN [ret |-> "null", cmds |-> c5]
             ELSE IF abortMergeThrows(s.abort2) THEN [ret |-> "throw", cmds |-> c6]
             ELSE IF isExitError(s.abort) THEN [ret |-> "text", cmds |-> c6]
             ELSE [ret |-> "null", cmds |-> c6]
        ELSE IF abortMergeThrows(s.abort) THEN [ret |-> "throw", cmds |-> c5]
        ELSE IF isExitError(s.merge) THEN [ret |-> "text", cmds |-> c5]
        ELSE [ret |-> "null", cmds |-> c5]

canMergeCleanlyOutcomes ==
    {canMergeCleanly(s) : s \in [checkout : GitResults, pull : GitResults,
                                 fetch : GitResults, merge : GitResults,
                                 abort : GitResults, abort2 : GitResults]}

\* merge(dir, "master", head) without a message
merge(s) ==
    LET c1 == <<GitCmd("merge", s.merge)>>
        c2 == Append(c1, GitCmd("merge --abort", s.abort))
    IN  IF s.merge = "0" THEN [ret |-> "null", cmds |-> c1]
        ELSE IF abortMergeThrows(s.abort) THEN [ret |-> "throw", cmds |-> c2]
        ELSE IF isExitError(s.merge) THEN [ret |-> "text", cmds |-> c2]
        ELSE [ret |-> "null", cmds |-> c2]

mergeOutcomes == {merge(s) : s \in [merge : GitResults, abort : GitResults]}

(***************************************************************************)
(* main.ts, setGitRemoteToAppPermission: setRemote, then                   *)
(* removeGitHubConfigs; a command that fails raises.                       *)
(***************************************************************************)
setGitRemoteToAppPermission(s) ==
    LET c1 == <<GitCmd("remote set-url", s.setRemote)>>
        c2 == Append(c1, GitCmd("config --remove-section", s.removeSection))
    IN  IF s.setRemote # "0" THEN [ret |-> "throw", cmds |-> c1]
        ELSE IF s.removeSection # "0" THEN [ret |-> "throw", cmds |-> c2]
        ELSE [ret |-> "ok", cmds |-> c2]

setGitRemoteOutcomes ==
    {setGitRemoteToAppPermission(s) :
        s \in [setRemote : GitResults, removeSection : GitResults]}

SetGitRemoteToAppPermission ==
    /\ pc = "setGitRemoteToAppPermission"
    /\ \E o \in setGitRemoteOutcomes :
         /\ trace' = Append(trace, GitCall("setGitRemoteToAppPermission", o.ret))
         /\ IF o.ret = "throw"
            THEN PRDone("Error")
            ELSE pc' = "canMergeCleanly" /\ UNCHANGED prResult
    /\ UNCHANGED <<event, envOK, caller, prList, idx, retries, budget, pull,
                   probeLog, mergeMethod, title, mergeMsg, myStatuses, run,
                   results, updated, errorLog, statuses, checks, foreign,
                   exitCode, final, locator, calls>>

(***************************************************************************)
(* main.ts, checkRollupToMaster: canMergeCleanly, the statuses of the head *)
(* commit, and on a conflict the comment and the failure status.           *)
(***************************************************************************)
\* whether canMergeCleanly fetched the head branch
fetched(o) == Len(o.cmds) >= 3 /\ o.cmds[3].res = "0"

\* the entry of the trace for canMergeCleanly: tip is the commit its fetch
\* found at the head branch, which is what the branch name merged stands for
FetchCall(o, tip) ==
    [op |-> "git", fn |-> "canMergeCleanly", ret |-> o.ret,
     tip |-> IF fetched(o) THEN tip ELSE "none"]

\* the head branch is where the last read of the pull request showed it
HeadAsRead == {pull.sha}

\* another party may have pushed to the head branch since the last read
HeadMoved == Shas

CanMergeCleanly(tips) ==
    /\ pc = "canMergeCleanly"
    /\ \E o \in canMergeCleanlyOutcomes, tip \in tips :
         /\ trace' = Append(trace, FetchCall(o, tip))
         /\ IF o.ret = "throw"
            THEN PRDone("Error") /\ UNCHANGED mergeMsg
            ELSE /\ pc' = "listStatusesForRef"
                 /\ mergeMsg' = o.ret
                 /\ UNCHANGED prResult
    /\ UNCHANGED <<event, envOK, caller, prList, idx, retries, budget, pull,
                   probeLog, mergeMethod, title, myStatuses, run, results,
                   updated, errorLog, statuses, checks, foreign, exitCode, final, locator, calls>>

\* the statuses of a list that carry this system's context, in list order
RECURSIVE filterContext(_)
filterContext(list) ==
    IF list = <<>> THEN <<>>
    ELSE IF Head(list).context = statusContext
    THEN <<Head(list)>> \o filterContext(Tail(list))
    ELSE filterContext(Tail(list))

\* checkRollupToMaster leaving the comment out as soon as one status of its
\* context exists
needsComment_AnyExisting(mine) ==
    ~(Len(mine) > 0 /\ (mine[1].state = "failure" \/ mine[1].state = "error"))
needsComment(mine) ==
    ~(Len(mine) > 1 /\ (mine[1].state = "failure" \/ mine[1].state = "error"))

CheckEntry(conflict, commented) ==
    [sha |-> pull.sha, conflict |-> conflict, commented |-> commented]

\* the log of the direct calls of checkRollupToMaster
LogCheck(entry) == IF caller = "direct" THEN Append(checks, entry) ELSE checks

\* automerge ignoring the result of checkRollupToMaster
CheckReturn_Ignored(canMerge) ==
    IF caller = "direct" THEN "check_returned" ELSE "merge"

\* what follows checkRollupToMaster in its caller
CheckReturn(canMerge) ==
    IF caller = "direct" THEN "check_returned"
    ELSE IF ~canMerge THEN "pr_done"
    ELSE IF caller = "alt" THEN "alt_tryMerge" ELSE "merge"

\* checkRollupToMaster creating the status only together with the comment
onConflict_StatusWithComment(mine) ==
    IF needsComment(mine) THEN "createComment" ELSE CheckReturn(FALSE)

\* checkRollupToMaster on a conflict: the comment unless it is suppressed,
\* then the status in either case
onConflict(mine) == IF needsComment(mine) THEN "createComment" ELSE "createStatus"

ListStatusesForRef ==
    /\ pc = "listStatusesForRef"
    /\ \E r \in ApiResults :
         IF r = "throw"
         THEN PRDone("Error") /\ UNCHANGED <<myStatuses, trace, checks>>
         ELSE LET mine == filterContext(statuses[pull.sha]) IN
              /\ myStatuses' = mine
              /\ trace' = Append(trace, [op |-> "listStatuses", sha |-> pull.sha])
              /\ IF mergeMsg # "null"
                 THEN /\ pc' = onConflict(mine)
                      /\ UNCHANGED <<prResult, checks>>
                 ELSE \* no conflict: checkRollupToMaster returns true
                      /\ pc' = CheckReturn(TRUE)
                      /\ checks' = LogCheck(CheckEntry(FALSE, FALSE))
                      /\ UNCHANGED prResult
    /\ UNCHANGED <<event, envOK, caller, prList, idx, retries, budget, pull,
                   probeLog, mergeMethod, title, mergeMsg, run, results, updated,
                   errorLog, statuses, foreign, exitCode, final, locator, calls>>

\* addCommentToPR
CreateComment ==
    /\ pc = "createComment"
    /\ \E r \in ApiResults :
         IF r = "throw"
         THEN PRDone("Error") /\ UNCHANGED trace
         ELSE /\ trace' = Append(trace, [op |-> "comment", number |-> pull.number])
              /\ pc' = "createStatus"
              /\ UNCHANGED prResult
    /\ UNCHANGED <<event, envOK, caller, prList, idx, retries, budget, pull,
                   probeLog, mergeMethod, title, mergeMsg, myStatuses, run,
                   results, updated, errorLog, statuses, checks, foreign,
                   exitCode, final, locator, calls>>

\* createStatus writing the state success
createdState_Success == "success"

\* the state of the status the code creates
createdState == "failure"

\* repos.createStatus, after which checkRollupToMaster returns false and
\* automerge returns
CreateStatus ==
    /\ pc = "createStatus"
    /\ \E r \in ApiResults :
         IF r = "throw"
         THEN PRDone("Error") /\ UNCHANGED <<trace, statuses, checks>>
         ELSE LET st == [context |-> statusContext, state |-> createdState] IN
              /\ statuses' = [statuses EXCEPT ![pull.sha] = <<st>> \o @]
              /\ trace' = Append(trace, [op |-> "createStatus", sha |-> pull.sha,
                                         state |-> st.state, context |-> st.context])
              /\ checks' = LogCheck(CheckEntry(TRUE, trace[Len(trace)].op = "comment"))
              /\ pc' = CheckReturn(FALSE)
              /\ prResult' = IF caller = "direct" THEN prResult ELSE "returned"
    /\ UNCHANGED <<event, envOK, caller, prList, idx, retries, budget, pull,
                   probeLog, mergeMethod, title, mergeMsg, myStatuses, run,
                   results, updated, errorLog, foreign, exitCode, final, locator, calls>>

(***************************************************************************)
(* main.ts, automerge, the release branch path after the rollup check:     *)
(* git.merge of the head branch into master, git.push of master.           *)
(***************************************************************************)
\* logger.error writes an entry unless it is given one argument that is not
\* an Error object
loggerError(nargs, isError) == IF nargs = 1 /\ ~isError THEN 0 ELSE 1

Merge ==
    /\ pc = "merge"
    /\ \E o \in mergeOutcomes :
         /\ trace' = Append(trace, GitCall("merge", o.ret))
         /\ IF o.ret = "throw"
            THEN PRDone("Error") /\ UNCHANGED errorLog
            ELSE IF o.ret # "null"
            THEN \* logger.error(one string), then throw "Merge to master failed"
                 /\ errorLog' = errorLog + loggerError(1, FALSE)
                 /\ PRDone("string")
            ELSE pc' = "push" /\ UNCHANGED <<prResult, errorLog>>
    /\ UNCHANGED <<event, envOK, caller, prList, idx, retries, budget, pull,
                   probeLog, mergeMethod, title, mergeMsg, myStatuses, run,
                   results, updated, statuses, checks, foreign, exitCode, final, locator, calls>>

\* git.push not awaited: a failed push does not stop automerge
pushThrows_Never(r) == FALSE

\* git.push raises when the command fails
pushThrows(r) == r # "0"

Push ==
    /\ pc = "push"
    /\ \E r \in GitResults :
         /\ trace' = Append(trace, GitCall("push", IF r = "0" THEN "ok" ELSE "throw"))
         /\ IF pushThrows(r)
            THEN PRDone("Error")
            ELSE pc' = "mergePR" /\ UNCHANGED prResult
    /\ UNCHANGED <<event, envOK, caller, prList, idx, retries, budget, pull,
                   probeLog, mergeMethod, title, mergeMsg, myStatuses, run,
                   results, updated, errorLog, statuses, checks, foreign,
                   exitCode, final, locator, calls>>

(***************************************************************************)
(* main.ts, tryMerge and retry: mergePR is the initial attempt and every   *)
(* retry; a false result of retry makes automerge throw "Merge failed".    *)
(***************************************************************************)
\* mergePR taking every response for a success
mergePR_AnyResponse(res) == res # "throw"

\* mergePR: true only for a response with status 200
mergePR(res) == res # "throw" /\ res = "200"

\* mergePR sending no hash
pinnedSha_Omitted(pr) == "none"

\* mergePR: the sha parameter of pulls.merge
pinnedSha(pr) == pr.sha

\* retry with one attempt too many
retryAgain_OneMore(made) == made <= MERGE_RETRIES

\* retry: whether another attempt follows a failed one
retryAgain(made) == made + 1 <= MERGE_RETRIES

\* the entry a call of pulls.merge leaves in the trace, with or without the
\* response it got
MergeEntry(track, res) ==
    LET e == [op |-> "pulls.merge", number |-> pull.number, sha |-> pinnedSha(pull),
              method |-> mergeMethod, title |-> title, ok |-> mergePR(res)]
    IN  IF track = "res"
        THEN [f \in DOMAIN e \cup {"res"} |-> IF f = "res" THEN res ELSE e[f]]
        ELSE e

\* automerge returning whatever tryMerge returned
afterTryMerge_Ignored(mergeOK) == "returned"

\* automerge after tryMerge: it returns, or throws the string "Merge failed"
afterTryMerge(mergeOK) == IF mergeOK THEN "returned" ELSE "string"

MergePR(track) ==
    /\ pc = "mergePR"
    /\ \E res \in MergeResponses :
         /\ trace' = Append(trace, MergeEntry(track, res))
         /\ IF mergePR(res)
            THEN PRDone(afterTryMerge(TRUE))
            ELSE IF retryAgain(run)
            THEN pc' = "retry_delay" /\ UNCHANGED prResult
            ELSE PRDone(afterTryMerge(FALSE))
    /\ UNCHANGED <<event, envOK, caller, prList, idx, retries, budget, pull,
                   probeLog, mergeMethod, title, mergeMsg, myStatuses, run,
                   results, updated, errorLog, statuses, checks, foreign,
                   exitCode, final, locator, calls>>

RetryDelay ==
    /\ pc = "retry_delay"
    /\ run' = run + 1
    /\ trace' = Append(trace, [op |-> "delay", ms |-> MERGE_SLEEP_MS])
    /\ pc' = "mergePR"
    /\ UNCHANGED <<event, envOK, caller, prList, idx, retries, budget, pull,
                   probeLog, mergeMethod, title, mergeMsg, myStatuses, prResult,
                   results, updated, errorLog, statuses, checks, foreign,
                   exitCode, final, locator, calls>>

(***************************************************************************)
(* The handlers after the processing of a pull request.                    *)
(***************************************************************************)
\* onPR and onPRReview: the result of the pull request is the result of the
\* handler
HandlerDone ==
    /\ pc = "pr_done"
    /\ caller \in {"onPR", "onPRReview"}
    /\ Exit(prResult)
    /\ UNCHANGED <<event, envOK, caller, prList, idx, locals, results, updated,
                   errorLog, statuses, checks, foreign, locator, calls>>

\* onPush incrementing the counter outside the try block
countsAsUpdated_Always(how) == TRUE

\* onPush: whether the counter is incremented for a result
countsAsUpdated(how) == how = "returned"

\* onPush returning after the loop whatever the counter
onPushEnd_Returns(count) == "returned"

\* onPush: the end of the handler, after the loop
onPushEnd(count) == IF count > 0 THEN "returned" ELSE "NoError"

\* onPush stopping at the first pull request whose processing raised an error
loopContinues_StopOnError(how, i, n) == i < n /\ how \notin {"Error", "string"}

\* onPush: the for loop goes on to the next pull request listed, whatever the
\* result of the one before
loopContinues(how, i, n) == i < n

\* onPush: the end of one iteration of the loop, then the next pull request
\* or the end of the handler
OnPushNext ==
    /\ pc = "pr_done"
    /\ caller = "onPush"
    /\ LET count == IF countsAsUpdated(prResult) THEN updated + 1 ELSE updated IN
       /\ updated' = count
       /\ errorLog' = IF prResult \in {"Error", "string"}
                      THEN errorLog + loggerError(1, prResult = "Error")
                      ELSE errorLog
       /\ results' = Append(results, [number |-> prList[idx], how |-> prResult,
                                      merged |-> \E i \in DOMAIN trace :
                                                    /\ trace[i].op = "pulls.merge"
                                                    /\ trace[i].ok])
       /\ IF loopContinues(prResult, idx, Len(prList))
          THEN /\ idx' = idx + 1
               /\ pc' = "checkMergeability"
               /\ retries' = DEFAULT_RETRIES
               /\ budget' = DEFAULT_RETRIES
               /\ pull' = NoPull
               /\ probeLog' = <<>>
               /\ mergeMethod' = "merge"
               /\ title' = Undefined
               /\ mergeMsg' = "unset"
               /\ myStatuses' = <<>>
               /\ run' = 0
               /\ trace' = <<>>
               /\ prResult' = "none"
               /\ UNCHANGED <<exitCode, final>>
          ELSE /\ Exit(onPushEnd(count))
               /\ UNCHANGED <<idx, locals>>
    /\ UNCHANGED <<event, envOK, caller, prList, statuses, checks, foreign, locator, calls>>

(***************************************************************************)
(* One invocation of the action.                                           *)
(***************************************************************************)
Next ==
    \/ Run
    \/ OnPR
    \/ OnPRReview
    \/ OnStatus
    \/ OnPush
    \/ ListPRs
    \/ Authenticate
    \/ CheckMergeabilityRead("none", Served(ServedPulls(event), SameAsRead))
    \/ CheckMergeabilityDelay
    \/ ProcessPR
    \/ Automerge
    \/ SetGitRemoteToAppPermission
    \/ CanMergeCleanly(HeadAsRead)
    \/ ListStatusesForRef
    \/ CreateComment
    \/ CreateStatus
    \/ Merge
    \/ Push
    \/ MergePR("none")
    \/ RetryDelay
    \/ HandlerDone
    \/ OnPushNext

Spec == Init /\ [][Next]_vars

\* every call made by the invocation returns, so a step that is possible is
\* taken
SpecReturns == Init /\ [][Next]_vars /\ WF_vars(Next)

(***************************************************************************)
(* Direct calls of checkMergeability(pr, retries) with every retry budget, *)
(* recording what every read showed.                                       *)
(***************************************************************************)
InitProbe ==
    /\ pc = "checkMergeability"
    /\ event = [name |-> "pull_request", action |-> "labeled", review |-> "none",
                refIsBranch |-> TRUE, hasOwner |-> TRUE, branch |-> RefMaster]
    /\ envOK = TRUE
    /\ caller = "direct"
    /\ prList = <<3>>
    /\ idx = 1
    /\ \E n \in 0..MaxRetriesArg : retries = n /\ budget = n
    /\ pull = NoPull
    /\ probeLog = <<>>
    /\ mergeMethod = "merge"
    /\ title = Undefined
    /\ mergeMsg = "unset"
    /\ myStatuses = <<>>
    /\ run = 0
    /\ trace = <<>>
    /\ prResult = "none"
    /\ results = <<>>
    /\ updated = 0
    /\ errorLog = 0
    /\ statuses = [s \in Shas |-> <<>>]
    /\ checks = <<>>
    /\ foreign = 0
    /\ exitCode = -1
    /\ final = "running"
    /\ locator = Idle
    /\ calls = NoCalls

NextProbe ==
    \/ CheckMergeabilityRead("verdict", Served(ProbePulls, SameAsRead))
    \/ CheckMergeabilityDelay

SpecProbe == InitProbe /\ [][NextProbe]_vars

(***************************************************************************)
(* Direct calls of checkRollupToMaster in a row, for pull requests into a  *)
(* release branch, against a platform that keeps the statuses and to which *)
(* other parties add statuses.                                             *)
(***************************************************************************)
RollupPulls ==
    [labels : {{"Automerge"}}, base : {RefReleases}, head : HeadRefs, sha : Shas]

InitRollup ==
    /\ pc = "canMergeCleanly"
    /\ event = [name |-> "pull_request", action |-> "labeled", review |-> "none",
                refIsBranch |-> TRUE, hasOwner |-> TRUE, branch |-> RefMaster]
    /\ envOK = TRUE
    /\ caller = "direct"
    /\ prList = <<3>>
    /\ idx = 1
    /\ retries = 0
    /\ budget = 0
    /\ \E st \in RollupPulls : pull = PullOf(3, st, "true", "clean")
    /\ probeLog = <<>>
    /\ mergeMethod = "merge"
    /\ title = Undefined
    /\ mergeMsg = "unset"
    /\ myStatuses = <<>>
    /\ run = 0
    /\ trace = <<>>
    /\ prResult = "none"
    /\ results = <<>>
    /\ updated = 0
    /\ errorLog = 0
    /\ statuses = [s \in Shas |-> <<>>]
    /\ checks = <<>>
    /\ foreign = 0
    /\ exitCode = -1
    /\ final = "running"
    /\ locator = Idle
    /\ calls = NoCalls

\* the next invocation processes the same pull request, whose head commit
\* is the same or a new one
CallCheckAgain ==
    /\ pc = "check_returned"
    /\ Len(checks) < MaxChecks
    /\ \E sha \in Shas : pull' = [pull EXCEPT !.sha = sha]
    /\ pc' = "canMergeCleanly"
    /\ mergeMsg' = "unset"
    /\ myStatuses' = <<>>
    /\ trace' = <<>>
    /\ UNCHANGED <<event, envOK, caller, prList, idx, retries, budget, probeLog,
                   mergeMethod, title, run, prResult, results, updated, errorLog,
                   statuses, checks, foreign, exitCode, final, locator, calls>>

\* another party adds a status to a commit between two invocations
ForeignStatus ==
    /\ pc = "check_returned"
    /\ foreign < MaxForeign
    /\ \E sha \in Shas, st \in ForeignStatuses :
         statuses' = [statuses EXCEPT ![sha] = <<st>> \o @]
    /\ foreign' = foreign + 1
    /\ UNCHANGED <<pc, event, envOK, caller, prList, idx, locals, results,
                   updated, errorLog, checks, exitCode, final, locator, calls>>

NextRollup ==
    \/ CanMergeCleanly(HeadAsRead)
    \/ ListStatusesForRef
    \/ CreateComment
    \/ CreateStatus
    \/ CallCheckAgain
    \/ ForeignStatus

SpecRollup == InitRollup /\ [][NextRollup]_vars

(***************************************************************************)
(* One invocation for a pull_request event on a labelled pull request into *)
(* master or a release branch, recording the head commit every read showed *)
(* and the response every call of the merge endpoint got.                  *)
(***************************************************************************)
MergePulls ==
    [labels : {{"Automerge"}}, base : {RefMaster, RefReleases}, head : HeadRefs,
     sha : Shas]

InitMerge ==
    /\ Init
    /\ event.name = "pull_request"
    /\ event.action = "labeled"
    /\ envOK

NextMerge ==
    \/ Run
    \/ OnPR
    \/ Authenticate
    \/ CheckMergeabilityRead("sha", Served(MergePulls, NewCommits))
    \/ CheckMergeabilityDelay
    \/ ProcessPR
    \/ Automerge
    \/ SetGitRemoteToAppPermission
    \/ CanMergeCleanly(HeadMoved)
    \/ ListStatusesForRef
    \/ CreateComment
    \/ CreateStatus
    \/ Merge
    \/ Push
    \/ MergePR("res")
    \/ RetryDelay
    \/ HandlerDone

SpecMerge == InitMerge /\ [][NextMerge]_vars

(***************************************************************************)
(* git.ts, mergeBase: the merge base of a list of refs, reduced pairwise   *)
(* from the left with git merge-base.  A result is a value (a ref or a     *)
(* commit), null, or a raised error; cmds counts the git commands run.     *)
(***************************************************************************)
Commits == {"c1", "c2"}
RemoteRef == "refs/remotes/origin/main"
\* the refs a caller passes
RefArgs == {"HEAD", RemoteRef, "c1"}
\* one run of git merge-base: its result and, with exit status 0, its output
GitOuts == [res : GitResults, out : Commits]

NoResult == [kind |-> "none", value |-> "none", message |-> "none", cmds |-> 0]
Value(v, n) == [kind |-> "value", value |-> v, message |-> "none", cmds |-> n]
Null(n) == [kind |-> "null", value |-> "none", message |-> "none", cmds |-> n]
Raised(kind, msg, n) == [kind |-> kind, value |-> "none", message |-> msg, cmds |-> n]

\* the while loop with a catch block that returns null for every failure
RECURSIVE mergeBaseLoop_AnyFailureNull(_, _, _)
mergeBaseLoop_AnyFailureNull(todo, outs, n) ==
    IF Len(todo) <= 1 THEN Value(todo[1], n)
    ELSE LET r == outs[n + 1] IN
         IF r.res = "0"
         THEN mergeBaseLoop_AnyFailureNull(<<r.out>> \o SubSeq(todo, 3, Len(todo)),
                                           outs, n + 1)
         ELSE Null(n + 1)

\* the while loop of mergeBase, after n commands
RECURSIVE mergeBaseLoop(_, _, _)
mergeBaseLoop(todo, outs, n) ==
    IF Len(todo) <= 1 THEN Value(todo[1], n)
    ELSE LET r == outs[n + 1] IN
         IF r.res = "0"
         THEN mergeBaseLoop(<<r.out>> \o SubSeq(todo, 3, Len(todo)), outs, n + 1)
         ELSE IF isExitError(r.res) /\ r.res = "1" THEN Null(n + 1)
         ELSE Raised("Error", "command failed", n + 1)

\* mergeBase without the check of the empty list: todo[0] is undefined
mergeBase_NoEmptyCheck(refs, outs) ==
    IF Len(refs) = 1 THEN Value(refs[1], 0)
    ELSE IF Len(refs) < 1 THEN Null(0)
    ELSE mergeBaseLoop(refs, outs, 0)

mergeBase(refs, outs) ==
    IF Len(refs) = 1 THEN Value(refs[1], 0)
    ELSE IF Len(refs) < 1 THEN Raised("Error", "empty refs!", 0)
    ELSE mergeBaseLoop(refs, outs, 0)

\* the commands the while loop runs after n commands: the two refs each is
\* given, its result and its output
RECURSIVE mergeBaseRuns(_, _, _)
mergeBaseRuns(todo, outs, n) ==
    IF Len(todo) <= 1 THEN <<>>
    ELSE LET r == outs[n + 1] IN
         <<[a |-> todo[1], b |-> todo[2], res |-> r.res, out |-> r.out]>>
         \o (IF r.res = "0"
             THEN mergeBaseRuns(<<r.out>> \o SubSeq(todo, 3, Len(todo)), outs, n + 1)
             ELSE <<>>)

\* the results of the commands mergeBase may run on a list of refs
mergeBaseOuts(refs) ==
    [1..(IF Len(refs) > 1 THEN Len(refs) - 1 ELSE 0) -> GitOuts]

\* the results of mergeBase over the results of the commands it may run
mergeBaseOutcomes(refs) == {mergeBase(refs, outs) : outs \in mergeBaseOuts(refs)}

\* the variables of an invocation of the action, which the functions of
\* git.ts below leave alone
mainVars == <<pc, event, envOK, caller, prList, idx, retries, budget, pull,
              probeLog, mergeMethod, title, mergeMsg, myStatuses, run, trace,
              prResult, results, updated, errorLog, statuses, checks, foreign,
              exitCode, final, calls>>

NoInvocation ==
    /\ pc = "none"
    /\ event = [name |-> "status", action |-> "none", review |-> "none",
                refIsBranch |-> TRUE, hasOwner |-> TRUE, branch |-> RefMaster]
    /\ envOK = TRUE
    /\ caller = "none"
    /\ prList = <<>>
    /\ idx = 0
    /\ InitLocals
    /\ results = <<>>
    /\ updated = 0
    /\ errorLog = 0
    /\ statuses = [s \in Shas |-> <<>>]
    /\ checks = <<>>
    /\ foreign = 0
    /\ exitCode = -1
    /\ final = "running"
    /\ calls = NoCalls

(***************************************************************************)
(* Direct calls of mergeBase with every list of at most MaxRefs refs.      *)
(***************************************************************************)
RefLists == UNION {[1..k -> RefArgs] : k \in 0..MaxRefs}

InitMergeBase ==
    /\ NoInvocation
    /\ \E refs \in RefLists :
          locator = [pc |-> "mergeBase", refs |-> refs, ran |-> <<>>,
                     result |-> NoResult]

CallMergeBase ==
    /\ locator.pc = "mergeBase"
    /\ \E outs \in mergeBaseOuts(locator.refs) :
          locator' = [locator EXCEPT !.pc = "done",
                                     !.ran = mergeBaseRuns(locator.refs, outs, 0),
                                     !.result = mergeBase(locator.refs, outs)]
    /\ UNCHANGED mainVars

NextMergeBase == CallMergeBase

SpecMergeBase == InitMergeBase /\ [][NextMergeBase]_vars

(***************************************************************************)
(* git.ts, fetchUntilMergeBase(dir, branch, timeout).  The clock counts    *)
(* ticks from the call: a local git command takes 0 or 1 tick, a fetch 1   *)
(* or 2.  disjoint says that HEAD and the branch have no common ancestor,  *)
(* however deep the history fetched: git merge-base HEAD ref then never    *)
(* exits with 0.  Otherwise the repository decides every result.           *)
(***************************************************************************)
LocalTime == {0, 1}
FetchTime == {1, 2}

\* the number of commits a fetch deepens the history by
FETCH_DEPTH == 10

(***************************************************************************)
(* git.ts, mergeCommits.  git rev-list --parents ref..HEAD prints one line *)
(* for every commit of the range: the commit, then its parents, separated  *)
(* by spaces.  The output is a sequence of lines and a line a sequence of  *)
(* words, as split(/\n/g) and split(/ /g) cut them: the empty output is    *)
(* one line of one empty word.                                             *)
(***************************************************************************)
RangeCommits == {"h1", "h2"}

EmptyOutput == <<(<<"">>)>>

\* the lines rev-list prints for a commit with at most MaxParents parents
RevLines ==
    {<<h>> \o ps : h \in RangeCommits,
                   ps \in UNION {[1..k -> Commits] : k \in 1..MaxParents}}

RevListOutputs ==
    {EmptyOutput} \cup UNION {[1..n -> RevLines] : n \in 1..MaxLines}

\* line.split(/ /g).slice(2): the first parent is dropped with the commit
slice1_DropFirstParent(line) == SubSeq(line, 3, Len(line))

\* line.split(/ /g).slice(1)
slice1(line) == SubSeq(line, 2, Len(line))

mergeCommits(lines) ==
    SelectSeq([i \in DOMAIN lines |-> slice1(lines[i])],
              LAMBDA commit : Len(commit) > 1)

\* Array.prototype.flat
RECURSIVE flat(_)
flat(lists) == IF lists = <<>> THEN <<>> ELSE Head(lists) \o flat(Tail(lists))

\* the outputs of rev-list for a range of one commit
OneCommitOutputs ==
    {EmptyOutput} \cup {<<line>> : line \in {l \in RevLines : l[1] = "h1"}}

\* the condition of the while loop
timeLeft(now, maxTime) == now < maxTime

\* the for loop going on to the next parent when one has no common ancestor
\* with the branch
RECURSIVE collectBases_SkipMissing(_, _, _)
collectBases_SkipMissing(bases, parents, outs) ==
    IF parents = <<>>
    THEN [fetchMore |-> FALSE, raised |-> FALSE, bases |-> bases]
    ELSE LET b == mergeBase(<<Head(parents), RemoteRef>>, <<Head(outs)>>) IN
         IF b.kind = "Error"
         THEN [fetchMore |-> FALSE, raised |-> TRUE, bases |-> bases]
         ELSE collectBases_SkipMissing(
                 IF b.kind = "null" \/ \E i \in DOMAIN bases : bases[i] = b.value
                 THEN bases ELSE Append(bases, b.value),
                 Tail(parents), Tail(outs))

\* the for loop over the parents of the merge commits: the bases collected
\* so far, the parents left, and the results of their merge-base commands
RECURSIVE collectBases(_, _, _)
collectBases(bases, parents, outs) ==
    IF parents = <<>>
    THEN [fetchMore |-> FALSE, raised |-> FALSE, bases |-> bases]
    ELSE LET b == mergeBase(<<Head(parents), RemoteRef>>, <<Head(outs)>>) IN
         IF b.kind = "Error"
         THEN [fetchMore |-> FALSE, raised |-> TRUE, bases |-> bases]
         ELSE IF b.kind = "null"
         THEN [fetchMore |-> TRUE, raised |-> FALSE, bases |-> bases]
         ELSE collectBases(IF \E i \in DOMAIN bases : bases[i] = b.value
                           THEN bases ELSE Append(bases, b.value),
                           Tail(parents), Tail(outs))

\* what mergeBase(dir, parent, ref) finds for every parent: a commit, "none"
\* when the two have no common ancestor, "error" when the command fails
foundFor(parents, outs) ==
    [i \in DOMAIN parents |->
        LET b == mergeBase(<<parents[i], RemoteRef>>, <<outs[i]>>) IN
        CASE b.kind = "value" -> b.value
          [] b.kind = "null" -> "none"
          [] OTHER -> "error"]

\* fetchUntilMergeBase raising a TimeoutError when the reduction finds no base
commonBaseOutcome_Timeout(r) ==
    IF r.kind = "null" THEN Raised("TimeoutError", "none", r.cmds) ELSE r

\* the end of fetchUntilMergeBase after the reduction over the bases
commonBaseOutcome(r) ==
    IF r.kind = "null" THEN Raised("Error", "failed to find common base", r.cmds)
    ELSE r

InitLocator ==
    /\ NoInvocation
    /\ \E t \in 0..MaxTimeout, d \in BOOLEAN :
          locator = [pc |-> "loop", now |-> 0, maxTime |-> t, disjoint |-> d,
                     iterations |-> 0, fetches |-> 0, depth |-> 0, why |-> "none",
                     bases |-> <<>>, found |-> <<>>,
                     reduced |-> "none", result |-> NoResult]

\* while (new Date().getTime() < maxTime), and the TimeoutError after it
LoopHead ==
    /\ locator.pc = "loop"
    /\ locator' = IF timeLeft(locator.now, locator.maxTime)
                  THEN [locator EXCEPT !.pc = "base", !.iterations = @ + 1,
                                       !.bases = <<>>, !.found = <<>>]
                  ELSE [locator EXCEPT !.pc = "done",
                                       !.result = Raised("TimeoutError", "none", 0)]
    /\ UNCHANGED mainVars

\* mergeBase(dir, "HEAD", ref)
FindBase ==
    /\ locator.pc = "base"
    /\ \E o \in GitOuts, d \in LocalTime :
          /\ locator.disjoint => o.res # "0"
          /\ LET base == mergeBase(<<"HEAD", RemoteRef>>, <<o>>) IN
             locator' =
                CASE base.kind = "Error" ->
                       [locator EXCEPT !.pc = "done", !.now = @ + d, !.result = base]
                  [] base.kind = "null" ->
                       [locator EXCEPT !.pc = "deepen", !.now = @ + d,
                                       !.why = "HEAD"]
                  [] OTHER ->
                       [locator EXCEPT !.pc = "parents", !.now = @ + d,
                                       !.bases = <<base.value>>]
    /\ UNCHANGED mainVars

\* mergeCommits(dir, ref), then mergeBase(dir, parent, ref) for every parent
CheckParents ==
    /\ locator.pc = "parents"
    /\ \E r \in GitResults, lines \in OneCommitOutputs :
          IF r # "0"
          THEN locator' = [locator EXCEPT !.pc = "done",
                                          !.result = Raised("Error", "command failed", 1)]
          ELSE LET parents == flat(mergeCommits(lines)) IN
               \E outs \in [1..Len(parents) -> GitOuts] :
                 LET c == collectBases(locator.bases, parents, outs) IN
                 locator' =
                    CASE c.raised ->
                           [locator EXCEPT !.pc = "done",
                                           !.result = Raised("Error", "command failed", 1)]
                      [] c.fetchMore ->
                           [locator EXCEPT !.pc = "deepen", !.why = "parent",
                                           !.found = foundFor(parents, outs)]
                      [] OTHER ->
                           [locator EXCEPT !.pc = "reduce", !.bases = c.bases,
                                           !.found = foundFor(parents, outs)]
    /\ UNCHANGED mainVars

\* mergeBase(dir, ...bases), and the end of the call
Reduce ==
    /\ locator.pc = "reduce"
    /\ \E r \in mergeBaseOutcomes(locator.bases) :
          locator' = [locator EXCEPT !.pc = "done", !.reduced = r.kind,
                                     !.result = commonBaseOutcome(r)]
    /\ UNCHANGED mainVars

\* fetchDeepen(dir), then the next iteration
Deepen ==
    /\ locator.pc = "deepen"
    /\ \E r \in GitResults, d \in FetchTime :
          locator' =
             IF r # "0"
             THEN [locator EXCEPT !.pc = "done", !.now = @ + d,
                                  !.result = Raised("Error", "command failed", 1)]
             ELSE [locator EXCEPT !.pc = "loop", !.now = @ + d, !.fetches = @ + 1,
                                  !.depth = @ + FETCH_DEPTH]
    /\ UNCHANGED mainVars

NextLocator ==
    \/ LoopHead
    \/ FindBase
    \/ CheckParents
    \/ Reduce
    \/ Deepen

\* the call runs on until it returns or raises
SpecLocator == InitLocator /\ [][NextLocator]_vars /\ WF_vars(NextLocator)

(***************************************************************************)
(* Direct calls of mergeCommits on every output of rev-list of at most     *)
(* MaxLines lines; checked is the list of parents fetchUntilMergeBase      *)
(* walks, parents.flat().                                                  *)
(***************************************************************************)
InitMergeCommits ==
    /\ NoInvocation
    /\ \E lines \in RevListOutputs :
          locator = [pc |-> "mergeCommits", lines |-> lines,
                     parents |-> <<>>, checked |-> <<>>]

CallMergeCommits ==
    /\ locator.pc = "mergeCommits"
    /\ locator' = [locator EXCEPT !.pc = "done",
                                  !.parents = mergeCommits(locator.lines),
                                  !.checked = flat(mergeCommits(locator.lines))]
    /\ UNCHANGED mainVars

NextMergeCommits == CallMergeCommits

SpecMergeCommits == InitMergeCommits /\ [][NextMergeCommits]_vars

(***************************************************************************)
(* Direct calls of the merge functions of git.ts in a checked-out          *)
(* repository: canMergeCleanly and merge once, abortMerge up to MaxAborts  *)
(* times in a row.  last holds the function called, what it returned and   *)
(* the commands it ran; aborts the result of the abort command and the     *)
(* outcome of every call of abortMerge.                                    *)
(***************************************************************************)
\* abortMerge(dir): "ok" when it returns, "throw" when it raises
abortMerge(r) == IF abortMergeThrows(r) THEN "throw" ELSE "ok"

NoGitCall == [fn |-> "none", ret |-> "none", cmds |-> <<>>]

InitGit ==
    /\ NoInvocation
    /\ locator = [pc |-> "git", last |-> NoGitCall, aborts |-> <<>>]

CallCanMergeCleanly ==
    /\ locator.pc = "git"
    /\ locator.aborts = <<>>
    /\ \E o \in canMergeCleanlyOutcomes :
          locator' = [locator EXCEPT !.pc = "done",
                         !.last = [fn |-> "canMergeCleanly", ret |-> o.ret,
                                   cmds |-> o.cmds]]
    /\ UNCHANGED mainVars

CallMerge ==
    /\ locator.pc = "git"
    /\ locator.aborts = <<>>
    /\ \E o \in mergeOutcomes :
          locator' = [locator EXCEPT !.pc = "done",
                         !.last = [fn |-> "merge", ret |-> o.ret, cmds |-> o.cmds]]
    /\ UNCHANGED mainVars

CallAbortMerge ==
    /\ locator.pc = "git"
    /\ Len(locator.aborts) < MaxAborts
    /\ \E r \in GitResults :
          locator' = [locator EXCEPT
                         !.last = [fn |-> "abortMerge", ret |-> abortMerge(r),
                                   cmds |-> <<GitCmd("merge --abort", r)>>],
                         !.aborts = Append(@, [res |-> r, ret |-> abortMerge(r)])]
    /\ UNCHANGED mainVars

NextGit == CallCanMergeCleanly \/ CallMerge \/ CallAbortMerge

SpecGit == InitGit /\ [][NextGit]_vars

(***************************************************************************)
(* A push batch of release pull requests in one working directory, whose   *)
(* git configuration lasts from one pull request to the next.  section     *)
(* says whether the configuration holds the section                        *)
(* http.https://github.com/; git config --remove-section exits with a      *)
(* non-zero status when the section it is to remove does not exist.        *)
(***************************************************************************)
BatchPulls ==
    [labels : {{"Automerge"}}, base : {event.branch}, head : {RefFeature}, sha : Shas]

NoRun == [setRemote |-> "none", removeSection |-> "none", ret |-> "none"]

\* the results removeGitHubConfigs can have in a repository
removeSectionResults(section) == IF section THEN GitResults ELSE GitResults \ {"0"}

InitBatch ==
    /\ pc = "run"
    /\ event = [name |-> "push", action |-> "none", review |-> "none",
                refIsBranch |-> TRUE, hasOwner |-> TRUE, branch |-> RefReleases]
    /\ envOK = TRUE
    /\ caller = "none"
    /\ prList = <<>>
    /\ idx = 0
    /\ InitLocals
    /\ results = <<>>
    /\ updated = 0
    /\ errorLog = 0
    /\ statuses = [s \in Shas |-> <<>>]
    /\ checks = <<>>
    /\ foreign = 0
    /\ exitCode = -1
    /\ final = "running"
    /\ \E b \in BOOLEAN :
          locator = [pc |-> "repo", section |-> b, runs |-> 0, absent |-> FALSE,
                     last |-> NoRun]
    /\ calls = NoCalls

\* setGitRemoteToAppPermission in the working directory of the invocation
SetGitRemoteInRepo ==
    /\ pc = "setGitRemoteToAppPermission"
    /\ \E s \in [setRemote : GitResults,
                 removeSection : removeSectionResults(locator.section)] :
         LET o == setGitRemoteToAppPermission(s)
             ran == Len(o.cmds) = 2
         IN  /\ trace' = Append(trace, GitCall("setGitRemoteToAppPermission", o.ret))
             /\ locator' = [locator EXCEPT
                               !.section = IF o.ret = "ok" THEN FALSE ELSE @,
                               !.runs = @ + 1,
                               !.absent = ~locator.section,
                               !.last = [setRemote |-> s.setRemote,
                                         removeSection |-> IF ran THEN s.removeSection
                                                           ELSE "none",
                                         ret |-> o.ret]]
             /\ IF o.ret = "throw"
                THEN PRDone("Error")
                ELSE pc' = "canMergeCleanly" /\ UNCHANGED prResult
    /\ UNCHANGED <<event, envOK, caller, prList, idx, retries, budget, pull,
                   probeLog, mergeMethod, title, mergeMsg, myStatuses, run,
                   results, updated, errorLog, statuses, checks, foreign,
                   exitCode, final, calls>>

NextBatch ==
    \/ Run
    \/ OnPush
    \/ ListPRs
    \/ Authenticate
    \/ CheckMergeabilityRead("none", Served(BatchPulls, SameAsRead))
    \/ CheckMergeabilityDelay
    \/ ProcessPR
    \/ Automerge
    \/ SetGitRemoteInRepo
    \/ CanMergeCleanly(HeadAsRead)
    \/ ListStatusesForRef
    \/ CreateComment
    \/ CreateStatus
    \/ Merge
    \/ Push
    \/ MergePR("none")
    \/ RetryDelay
    \/ OnPushNext

SpecBatch == InitBatch /\ [][NextBatch]_vars

(***************************************************************************)
(* processPR and the choice of the merge method in automerge, applied to   *)
(* two pull requests, numbered 1 and 2, with every combination of labels,  *)
(* base, head and verdict.                                                 *)
(***************************************************************************)
ClassifyPulls ==
    [labels : LabelSets,
     base : {RefMaster, RefReleases, RefDevelop},
     head : HeadRefs \cup {FixPrPrefix \o <<"1">>},
     sha : {"sha-a"}]

InitClassify == NoInvocation /\ locator = Idle

Classify ==
    /\ Len(results) < 2
    /\ \E st \in ClassifyPulls, m \in Mergeables, ms \in MergeableStates :
          LET pr == PullOf(Len(results) + 1, st, m, ms) IN
          results' = Append(results, [pr |-> pr,
                                      outcome |-> processPRChecks(pr),
                                      method |-> mergeMethodOf(pr)])
    /\ UNCHANGED <<pc, event, envOK, caller, prList, idx, locals, updated,
                   errorLog, statuses, checks, foreign, exitCode, final, locator, calls>>

NextClassify == Classify

SpecClassify == InitClassify /\ [][NextClassify]_vars

(***************************************************************************)
(* The asynchronous calls of main.ts in a push batch.  A call starts an    *)
(* operation (a request to the platform, a function of git.ts, a timer),   *)
(* which runs until it settles.  A caller that awaits the call goes on     *)
(* only when the operation has settled; one that does not goes on at once  *)
(* and the operation settles whenever it does.                             *)
(***************************************************************************)
\* the positions at which the invocation makes an asynchronous call
CallSites ==
    {"list", "authenticate", "checkMergeability", "probe_delay",
     "setGitRemoteToAppPermission", "canMergeCleanly", "listStatusesForRef",
     "createComment", "createStatus", "merge", "push", "mergePR", "retry_delay"}

\* the calls that run git commands in the working directory
GitSites == {"setGitRemoteToAppPermission", "canMergeCleanly", "merge", "push"}

\* automerge calling git.push without awaiting it
awaited_NotPush(site) == site # "push"

\* every call of onPush, checkMergeability, automerge, checkRollupToMaster,
\* tryMerge and retry is awaited
awaited(site) == TRUE

\* the call made at the position of the invocation: the n-th effect of the
\* pull request at index pr
ThisCall == [op |-> pc, pr |-> idx, n |-> Len(probeLog) + Len(trace)]

callerVars == <<pc, event, envOK, caller, prList, idx, retries, budget, pull,
                probeLog, mergeMethod, title, mergeMsg, myStatuses, run, trace,
                prResult, results, updated, errorLog, statuses, checks, foreign,
                exitCode, final, locator>>

\* the call is made: its operation starts
StartCall ==
    /\ pc \in CallSites
    /\ ThisCall \notin calls.running
    /\ calls.returned # ThisCall
    /\ calls' = [calls EXCEPT !.running = @ \cup {ThisCall}]
    /\ UNCHANGED callerVars

\* an operation settles
SettleCall ==
    /\ \E c \in calls.running :
          calls' = [running |-> calls.running \ {c},
                    returned |-> IF c = ThisCall THEN c ELSE calls.returned]
    /\ UNCHANGED callerVars

\* the caller goes on with what follows the call at its position
Resumes ==
    IF awaited(pc)
    THEN calls.returned = ThisCall
    ELSE ThisCall \in calls.running \/ calls.returned = ThisCall

\* the open pull requests of the branch pushed to
AwaitPulls ==
    [labels : {{"Automerge"}}, base : {event.branch}, head : {RefFeature},
     sha : {"sha-a"}]

InitAwait ==
    /\ Init
    /\ envOK
    /\ event.name = "push"
    /\ event.refIsBranch
    /\ event.hasOwner
    /\ event.branch \in {RefMaster, RefReleases}

NextAwait ==
    \/ Run
    \/ OnPush
    \/ StartCall
    \/ SettleCall
    \/ Resumes /\ ListPRs
    \/ Resumes /\ Authenticate
    \/ Resumes /\ CheckMergeabilityRead("none", Served(AwaitPulls, SameAsRead))
    \/ Resumes /\ CheckMergeabilityDelay
    \/ ProcessPR
    \/ Automerge
    \/ Resumes /\ SetGitRemoteToAppPermission
    \/ Resumes /\ CanMergeCleanly(HeadAsRead)
    \/ Resumes /\ ListStatusesForRef
    \/ Resumes /\ CreateComment
    \/ Resumes /\ CreateStatus
    \/ Resumes /\ Merge
    \/ Resumes /\ Push
    \/ Resumes /\ MergePR("none")
    \/ Resumes /\ RetryDelay
    \/ OnPushNext

SpecAwait == InitAwait /\ [][NextAwait]_vars

(***************************************************************************)
(* The earlier automerge, of src/lib (compiled main.js) and of             *)
(* src/unnamed/part_000: the pull request is merged into the release       *)
(* branch first, then the head branch is merged into master and master is  *)
(* pushed.  tryMerge is called without await: the call starts the sequence *)
(* of merge attempts and returns a promise, automerge goes on while the    *)
(* sequence runs, and the process exits when the handler has returned.     *)
(***************************************************************************)
AltPulls ==
    [labels : {{"Automerge"}}, base : {RefMaster, RefReleases, RefReleaseIos},
     head : HeadRefs, sha : {"sha-a"}]

altIsMergingIntoRelease(pr) ==
    \/ pr.base = RefReleaseIos
    \/ pr.base = RefReleaseWeb
    \/ startsWith(pr.base, <<"releases/">>)

altSquashes(pr) == pr.base = RefMaster

altTitleOf(pr) ==
    IF altSquashes(pr)
    THEN [kind |-> "string", text |-> <<pr.title, " (#", NumStr(pr.number), ")">>]
    ELSE Undefined

\* the values a condition is computed from: a boolean, or a promise
Bool(b) == [kind |-> "boolean", value |-> b]
Promise == [kind |-> "promise", value |-> FALSE]

\* JavaScript's !v: an object is truthy
not(v) == v.kind = "boolean" /\ ~v.value

\* what the call tryMerge(...) evaluates to where it is not awaited
altTryMergeValue == Promise

\* the call of tryMerge: the sequence of merge attempts of the pull request
TryMergeCall == [op |-> "tryMerge", pr |-> idx, n |-> 0]

InitAlt ==
    /\ pc = "automerge"
    /\ event = [name |-> "pull_request", action |-> "labeled", review |-> "none",
                refIsBranch |-> TRUE, hasOwner |-> TRUE, branch |-> RefMaster]
    /\ envOK = TRUE
    /\ caller = "alt"
    /\ prList = <<3>>
    /\ idx = 1
    /\ retries = 0
    /\ budget = 0
    /\ \E st \in AltPulls : pull = PullOf(3, st, "true", "clean")
    /\ probeLog = <<>>
    /\ mergeMethod = "merge"
    /\ title = Undefined
    /\ mergeMsg = "unset"
    /\ myStatuses = <<>>
    /\ run = 0
    /\ trace = <<>>
    /\ prResult = "none"
    /\ results = <<>>
    /\ updated = 0
    /\ errorLog = 0
    /\ statuses = [s \in Shas |-> <<>>]
    /\ checks = <<>>
    /\ foreign = 0
    /\ exitCode = -1
    /\ final = "running"
    /\ locator = Idle
    /\ calls = NoCalls

\* automerge up to its first call
AltAutomerge ==
    /\ pc = "automerge"
    /\ mergeMethod' = IF altSquashes(pull) THEN "squash" ELSE "merge"
    /\ title' = altTitleOf(pull)
    /\ run' = 0
    /\ pc' = IF altIsMergingIntoRelease(pull) THEN "alt_setGitRemote"
             ELSE "alt_tryMerge"
    /\ UNCHANGED <<event, envOK, caller, prList, idx, retries, budget, pull,
                   probeLog, mergeMsg, myStatuses, trace, prResult, results,
                   updated, errorLog, statuses, checks, foreign, exitCode, final,
                   locator, calls>>

\* setGitRemoteToAppPermission: an access token of the app, then git.setRemote
AltSetGitRemote ==
    /\ pc = "alt_setGitRemote"
    /\ \E a \in ApiResults, r \in GitResults :
         LET ok == a = "ok" /\ r = "0" IN
         /\ trace' = Append(trace, GitCall("setGitRemoteToAppPermission",
                                           IF ok THEN "ok" ELSE "throw"))
         /\ IF ok
            THEN pc' = "canMergeCleanly" /\ UNCHANGED prResult
            ELSE PRDone("Error")
    /\ UNCHANGED <<event, envOK, caller, prList, idx, retries, budget, pull,
                   probeLog, mergeMethod, title, mergeMsg, myStatuses, run,
                   results, updated, errorLog, statuses, checks, foreign,
                   exitCode, final, locator, calls>>

\* if (!tryMerge(...)) throw "Merge failed": the call starts the sequence of
\* merge attempts, and the condition is computed from the promise
AltTryMerge ==
    /\ pc = "alt_tryMerge"
    /\ calls' = [calls EXCEPT !.running = @ \cup {TryMergeCall}]
    /\ IF not(altTryMergeValue)
       THEN PRDone("string")
       ELSE IF altIsMergingIntoRelease(pull)
       THEN pc' = "alt_merge" /\ UNCHANGED prResult
       ELSE PRDone("returned")
    /\ UNCHANGED <<event, envOK, caller, prList, idx, retries, budget, pull,
                   probeLog, mergeMethod, title, mergeMsg, myStatuses, run, trace,
                   results, updated, errorLog, statuses, checks, foreign,
                   exitCode, final, locator>>

\* the effects of the sequence of merge attempts so far
AttemptEntries == SelectSeq(trace, LAMBDA e : e.op \in {"pulls.merge", "delay"})

\* the promise of tryMerge settles
Settled(c) == [running |-> calls.running \ {c}, returned |-> c]

\* retry, running detached from automerge: mergePR gets its response
AltMergeAttempt ==
    /\ pc # "exit"
    /\ TryMergeCall \in calls.running
    /\ IF AttemptEntries = <<>> THEN TRUE
       ELSE AttemptEntries[Len(AttemptEntries)].op = "delay"
    /\ \E res \in MergeResponses :
         /\ trace' = Append(trace, MergeEntry("none", res))
         /\ calls' = IF mergePR(res) \/ ~retryAgain(run)
                     THEN Settled(TryMergeCall) ELSE calls
    /\ UNCHANGED <<pc, event, envOK, caller, prList, idx, retries, budget, pull,
                   probeLog, mergeMethod, title, mergeMsg, myStatuses, run,
                   prResult, results, updated, errorLog, statuses, checks,
                   foreign, exitCode, final, locator>>

\* retry, running detached from automerge: delay(sleep) before the next attempt
AltMergeDelay ==
    /\ pc # "exit"
    /\ TryMergeCall \in calls.running
    /\ IF AttemptEntries = <<>> THEN FALSE
       ELSE AttemptEntries[Len(AttemptEntries)].op = "pulls.merge"
    /\ run' = run + 1
    /\ trace' = Append(trace, [op |-> "delay", ms |-> MERGE_SLEEP_MS])
    /\ UNCHANGED <<pc, event, envOK, caller, prList, idx, retries, budget, pull,
                   probeLog, mergeMethod, title, mergeMsg, myStatuses, prResult,
                   results, updated, errorLog, statuses, checks, foreign,
                   exitCode, final, locator, calls>>

\* git.merge of the head branch into master: a conflict is logged and
\* automerge goes on to the push
AltMerge ==
    /\ pc = "alt_merge"
    /\ \E o \in mergeOutcomes :
         /\ trace' = Append(trace, GitCall("merge", o.ret))
         /\ IF o.ret = "throw"
            THEN PRDone("Error") /\ UNCHANGED errorLog
            ELSE /\ pc' = "alt_push"
                 /\ errorLog' = IF o.ret # "null"
                                THEN errorLog + loggerError(1, FALSE) ELSE errorLog
                 /\ UNCHANGED prResult
    /\ UNCHANGED <<event, envOK, caller, prList, idx, retries, budget, pull,
                   probeLog, mergeMethod, title, mergeMsg, myStatuses, run,
                   results, updated, statuses, checks, foreign, exitCode, final,
                   locator, calls>>

\* git.push of master, then automerge returns
AltPush ==
    /\ pc = "alt_push"
    /\ \E r \in GitResults :
         /\ trace' = Append(trace, GitCall("push", IF r = "0" THEN "ok" ELSE "throw"))
         /\ PRDone(IF pushThrows(r) THEN "Error" ELSE "returned")
    /\ UNCHANGED <<event, envOK, caller, prList, idx, retries, budget, pull,
                   probeLog, mergeMethod, title, mergeMsg, myStatuses, run,
                   results, updated, errorLog, statuses, checks, foreign,
                   exitCode, final, locator, calls>>

\* the handler ends and run exits the process, whatever is still pending
AltHandlerDone ==
    /\ pc = "pr_done"
    /\ caller = "alt"
    /\ Exit(prResult)
    /\ UNCHANGED <<event, envOK, caller, prList, idx, locals, results, updated,
                   errorLog, statuses, checks, foreign, locator, calls>>

NextAlt ==
    \/ AltAutomerge
    \/ AltSetGitRemote
    \/ CanMergeCleanly(HeadAsRead)
    \/ ListStatusesForRef
    \/ CreateComment
    \/ CreateStatus
    \/ AltTryMerge
    \/ AltMergeAttempt
    \/ AltMergeDelay
    \/ AltMerge
    \/ AltPush
    \/ AltHandlerDone

SpecAlt == InitAlt /\ [][NextAlt]_vars

(***************************************************************************)
(* Vocabulary of the properties.                                           *)
(***************************************************************************)
\* checkMergeability returned a read for the current pull request: its log
\* ends with a read that no delay follows
ProbeReturned ==
    /\ probeLog # <<>>
    /\ probeLog[Len(probeLog)].op = "read"
    /\ pc # "probe_delay"

\* processPR ran for the current pull request and passed its checks or threw
PastProcessPR == ProbeReturned /\ pc # "processPR"

\* the processing of the current pull request is over
PREnded == pc \in {"pr_done", "exit"}

MergeCalls == {i \in DOMAIN trace : trace[i].op = "pulls.merge"}

IsGitCall(e, fn) == e.op = "git" /\ e.fn = fn

GitCallsOf(fn) == {i \in DOMAIN trace : IsGitCall(trace[i], fn)}

OpsOf(op) == {i \in DOMAIN trace : trace[i].op = op}

\* the bases the specification calls release branches
IsReleaseBase(b) ==
    \/ b \in {<<"release">>, <<"release-ios">>, <<"release-web">>}
    \/ (Len(b) >= 1 /\ b[1] = "releases/")

IsFixPrHead(h) == Len(h) >= 2 /\ h[1] = "feature/" /\ h[2] = "fix-pr-"

(***************************************************************************)
(* C1.  A pull request without the exact label Automerge ends processPR    *)
(* with the skip (a NoError), whatever its mergeability state and base,    *)
(* and nothing is done for it: no merge call, no status, no comment, no    *)
(* git command.                                                            *)
(***************************************************************************)
C1_NoLabelSkips ==
    (PastProcessPR /\ "Automerge" \notin pull.labels)
        => /\ PREnded
           /\ prResult = "NoError"
           /\ trace = <<>>

C1_Witness ==
    /\ pc = "pr_done"
    /\ prResult = "NoError"
    /\ pull.labels = {"automerge", "bug"}
    /\ pull.mergeable = "true"
    /\ pull.mergeable_state = "clean"
    /\ pull.base = RefMaster

(***************************************************************************)
(* C2.  A pull request whose mergeable_state after probing is neither      *)
(* clean nor unstable ends processPR with the skip, whatever its labels    *)
(* and base, and the merge endpoint is not invoked for it.                 *)
(***************************************************************************)
C2_BlockedStateSkips ==
    (PastProcessPR /\ pull.mergeable_state \notin {"clean", "unstable"})
        => /\ PREnded
           /\ prResult = "NoError"
           /\ MergeCalls = {}

C2_Witness ==
    /\ pc = "pr_done"
    /\ prResult = "NoError"
    /\ pull.labels = {"Automerge"}
    /\ pull.mergeable = "false"
    /\ pull.mergeable_state = "dirty"
    /\ pull.base = RefReleases

(***************************************************************************)
(* C3.  For a pull request with verdict clean or unstable and the label    *)
(* Automerge, the outcome depends on the base and head refs only: master   *)
(* and a head outside feature/fix-pr- is squashed with the title           *)
(* "<title> (#<number>)"; master and a head under feature/fix-pr- is       *)
(* merged without a title; a release base is merged without a title; any   *)
(* other base is skipped.  rebase is never chosen.                         *)
(***************************************************************************)
ExpectedMethod(pr) ==
    IF pr.base = <<"master">> /\ ~IsFixPrHead(pr.head) THEN "squash" ELSE "merge"

ExpectedTitle(pr) ==
    IF pr.base = <<"master">> /\ ~IsFixPrHead(pr.head)
    THEN [kind |-> "string",
          text |-> <<pr.title, " (#", IF pr.number = 3 THEN "3"
                                       ELSE IF pr.number = 2 THEN "2" ELSE "1", ")">>]
    ELSE [kind |-> "undefined"]

C4_MasterBeforePullRequest ==
    (pull # NoPull /\ IsReleaseBase(pull.base))
        => \A m \in MergeCalls :
              \E c \in GitCallsOf("canMergeCleanly"), g \in GitCallsOf("merge"),
                 p \in GitCallsOf("push") :
                 /\ c < g /\ g < p /\ p < m
                 /\ trace[c].ret = "null"
                 /\ trace[g].ret = "null"
                 /\ trace[p].ret = "ok"
                 /\ Cardinality(GitCallsOf("merge")) = 1
                 /\ Cardinality(GitCallsOf("push")) = 1

C4_Witness ==
    /\ pc = "pr_done"
    /\ prResult = "returned"
    /\ pull.base = RefReleaseIos
    /\ \E m \in MergeCalls : trace[m].ok

(***************************************************************************)
(* C5.  When the rollup check finds that the head branch does not merge    *)
(* cleanly into master, a failure status with the context                  *)
(* "Sportsbot: release to master automerge" is created on the head commit  *)
(* of the pull request, and no merge into master, no push and no merge     *)
(* call is made for the pull request.                                      *)
(***************************************************************************)
C5_RollupBlocked ==
    (caller # "direct" /\ mergeMsg = "text")
        => /\ GitCallsOf("merge") = {}
           /\ GitCallsOf("push") = {}
           /\ MergeCalls = {}
           /\ prResult \in {"none", "returned", "Error"}
           /\ pc \notin {"merge", "push", "mergePR", "retry_delay"}
           /\ (PREnded /\ prResult = "returned") =>
                 /\ Cardinality(OpsOf("createStatus")) = 1
                 /\ LET e == trace[Len(trace)] IN
                       /\ e.op = "createStatus"
                       /\ e.state = "failure"
                       /\ e.context = "Sportsbot: release to master automerge"
                       /\ e.sha = pull.sha
                 /\ statuses[pull.sha][1] =
                       [context |-> "Sportsbot: release to master automerge",
                        state |-> "failure"]

C5_Witness ==
    /\ caller = "onPush"
    /\ mergeMsg = "text"
    /\ pc = "pr_done"
    /\ prResult = "returned"
    /\ OpsOf("createStatus") # {}

(***************************************************************************)
(* C6.  checkMergeability(pr, maxRetries) reads the pull request again     *)
(* while the read shows mergeable null or a state other than clean and     *)
(* retries remain, waits one delay of 2000 ms before every repeated read,  *)
(* and returns the first read that shows mergeable non-null and the state  *)
(* clean; for the reads unknown, unknown, clean and maxRetries 3 it        *)
(* returns the clean read after 3 reads and 2 delays.                      *)
(***************************************************************************)
Reads == {i \in DOMAIN probeLog : probeLog[i].op = "read"}

Delays == {i \in DOMAIN probeLog : probeLog[i].op = "delay"}

Decisive(e) == e.mergeable # "null" /\ e.state = "clean"

LastProbe == probeLog[Len(probeLog)]

C6_RereadUntilClean ==
    /\ \A i \in DOMAIN probeLog :
          IF i % 2 = 1 THEN probeLog[i].op = "read"
          ELSE probeLog[i].op = "delay" /\ probeLog[i].ms = 2000
    /\ \A i \in Reads : i < Len(probeLog) => ~Decisive(probeLog[i])
    /\ Cardinality(Reads) <= budget + 1
    /\ (probeLog # <<>> /\ LastProbe.op = "read") =>
          IF Decisive(LastProbe)
          THEN /\ pc = "probe_returned"
               /\ pull.mergeable = LastProbe.mergeable
               /\ pull.mergeable_state = "clean"
          ELSE IF Cardinality(Reads) <= budget
          THEN pc = "probe_delay"
          ELSE pc = "probe_returned"
    /\ (/\ budget = 3
        /\ Len(probeLog) >= 5
        /\ probeLog[1].mergeable = "null"
        /\ probeLog[3].mergeable = "null"
        /\ Decisive(probeLog[5]))
          => /\ pc = "probe_returned"
             /\ Cardinality(Reads) = 3
             /\ Cardinality(Delays) = 2
             /\ pull.mergeable_state = "clean"

C6_Witness ==
    /\ budget = 3
    /\ pc = "probe_returned"
    /\ Len(probeLog) = 5
    /\ probeLog[1].mergeable = "null"
    /\ probeLog[3].mergeable = "null"
    /\ probeLog[5].mergeable = "true"
    /\ probeLog[5].state = "clean"
    /\ pull.mergeable_state = "clean"

(***************************************************************************)
(* C7.  When no read within the budget shows mergeable non-null and the    *)
(* state clean, checkMergeability makes maxRetries + 1 reads (4 with the   *)
(* default budget of 3) and maxRetries delays, and returns the last read   *)
(* without raising an error and without writing to the platform.           *)
(***************************************************************************)
C7_ExhaustedReturnsLastRead ==
    (pc = "probe_returned" /\ ~Decisive(LastProbe))
        => /\ Cardinality(Reads) = budget + 1
           /\ Cardinality(Delays) = budget
           /\ budget = 3 => Cardinality(Reads) = 4
           /\ pull.mergeable = LastProbe.mergeable
           /\ pull.mergeable_state = LastProbe.state
           /\ prResult = "none"
           /\ trace = <<>>
           /\ \A sha \in Shas : statuses[sha] = <<>>

C7_Witness ==
    /\ pc = "probe_returned"
    /\ budget = 3
    /\ Cardinality(Reads) = 4
    /\ pull.mergeable = "null"
    /\ pull.mergeable_state = "unstable"

(***************************************************************************)
(* C8.  tryMerge invokes the merge endpoint at most 4 times for a pull     *)
(* request, waits 10000 ms before every retry, stops at the first attempt  *)
(* that succeeds and returns true, and returns false after 4 failed        *)
(* attempts without a fifth.                                               *)
(***************************************************************************)
C8_AtMostFourAttempts ==
    /\ Cardinality(MergeCalls) <= 4
    /\ Cardinality(OpsOf("delay")) <= 3
    /\ \A i \in MergeCalls :
          /\ i < Len(trace) =>
                /\ ~trace[i].ok
                /\ trace[i + 1].op = "delay"
                /\ trace[i + 1].ms = 10000
          /\ (i > 1 /\ (i - 1) \notin GitCallsOf("push")) =>
                /\ trace[i - 1].op = "delay"
                /\ (i - 2) \in MergeCalls
    /\ (trace # <<>> /\ trace[Len(trace)].op = "pulls.merge") =>
          IF trace[Len(trace)].ok
          THEN PREnded /\ prResult = "returned"
          ELSE IF Cardinality(MergeCalls) = 4
          THEN PREnded /\ prResult = "string"
          ELSE pc = "retry_delay"

C8_Witness ==
    /\ pc = "pr_done"
    /\ prResult = "string"
    /\ Cardinality(MergeCalls) = 4
    /\ Cardinality(OpsOf("delay")) = 3
    /\ \A i \in MergeCalls : ~trace[i].ok

(***************************************************************************)
(* C9.  Whenever tryMerge exhausts its attempts for a pull request, the    *)
(* invocation ends in the fatal outcome with a non-zero exit code and not  *)
(* in a skip, for pull_request, pull_request_review and push events alike. *)
(***************************************************************************)
C9_ExhaustedMergeIsFatal ==
    (/\ pc = "exit"
     /\ Cardinality(MergeCalls) = 4
     /\ \A i \in MergeCalls : ~trace[i].ok)
        => /\ exitCode # 0
           /\ final \notin {"NoError", "returned"}

(***************************************************************************)
(* C10.  Across consecutive rollup checks that find a conflict for the     *)
(* same head commit, the first posts the comment and the second and every  *)
(* later one posts no comment.                                             *)
(***************************************************************************)
C10_SecondConflictNoComment ==
    foreign = 0 =>
       \A i \in DOMAIN checks :
          checks[i].conflict =>
             IF i > 1 /\ checks[i - 1].conflict /\ checks[i - 1].sha = checks[i].sha
             THEN ~checks[i].commented
             ELSE (\A j \in 1..(i - 1) : checks[j].sha # checks[i].sha)
                     => checks[i].commented

(***************************************************************************)
(* C11.  A call of checkRollupToMaster that returns after canMergeCleanly  *)
(* reported a conflict has created exactly one status, of state failure,   *)
(* with this system's context, on the head commit, whether it posted the   *)
(* comment or suppressed it; a call for which canMergeCleanly reported no  *)
(* conflict creates no status and no comment.  Over a row of calls every   *)
(* commit carries one failure status of this context per conflicting call. *)
(***************************************************************************)
FailureStatusesOn(sha) ==
    {i \in DOMAIN statuses[sha] :
        statuses[sha][i] = [context |-> "Sportsbot: release to master automerge",
                            state |-> "failure"]}

ConflictChecksOf(sha) ==
    {i \in DOMAIN checks : checks[i].conflict /\ checks[i].sha = sha}

C11_OneFailureStatusPerCheck ==
    /\ Cardinality(OpsOf("createStatus")) <= 1
    /\ Cardinality(OpsOf("comment")) <= 1
    /\ mergeMsg = "null" => OpsOf("createStatus") = {} /\ OpsOf("comment") = {}
    /\ pc = "check_returned" =>
          IF mergeMsg = "text"
          THEN /\ Cardinality(OpsOf("createStatus")) = 1
               /\ LET e == trace[Len(trace)] IN
                     /\ e.op = "createStatus"
                     /\ e.state = "failure"
                     /\ e.context = "Sportsbot: release to master automerge"
                     /\ e.sha = pull.sha
               /\ checks[Len(checks)].conflict
               /\ checks[Len(checks)].commented = (OpsOf("comment") # {})
          ELSE /\ OpsOf("createStatus") = {}
               /\ OpsOf("comment") = {}
               /\ ~checks[Len(checks)].conflict
    /\ \A sha \in Shas :
          Cardinality(FailureStatusesOn(sha)) = Cardinality(ConflictChecksOf(sha))

C11_Witness ==
    /\ pc = "check_returned"
    /\ mergeMsg = "text"
    /\ OpsOf("comment") = {}
    /\ Cardinality(OpsOf("createStatus")) = 1
    /\ Len(checks) = 3
    /\ checks[2].commented
    /\ ~checks[3].commented

(***************************************************************************)
(* C12.  In a push batch the list holds at most 10 pull requests, and      *)
(* every pull request of the list is probed and processed once, in the     *)
(* order of the list: the results are those of the pull requests listed,   *)
(* in order, and when the handler ends there is one result for every pull  *)
(* request listed, whatever the results of the earlier ones were (a skip,  *)
(* an Error, a thrown string).                                             *)
(***************************************************************************)
C12_BatchProcessesEveryPR ==
    caller = "onPush" =>
       /\ Len(prList) >= 1
       /\ Len(prList) <= 10
       /\ Len(results) <= Len(prList)
       /\ \A i \in DOMAIN results : results[i].number = prList[i]
       /\ \A i, j \in DOMAIN results : i # j => results[i].number # results[j].number
       /\ (idx >= 1 /\ pc # "exit") =>
             /\ Len(results) = idx - 1
             /\ pull # NoPull => pull.number = prList[idx]
             /\ pc \notin {"checkMergeability", "probe_delay"} =>
                   probeLog # <<>> \/ (pc = "pr_done" /\ prResult = "Error")
       /\ (idx >= 1 /\ pc = "exit") =>
             /\ Len(results) = Len(prList)
             /\ idx = Len(prList)

C12_Witness ==
    /\ pc = "exit"
    /\ caller = "onPush"
    /\ prList = <<2, 1>>
    /\ results = <<[number |-> 2, how |-> "Error", merged |-> FALSE],
                   [number |-> 1, how |-> "returned", merged |-> TRUE]>>

(***************************************************************************)
(* C13.  For a push to master, the merge endpoint is invoked only for a    *)
(* pull request that passed the checks of processPR (never for one without *)
(* the label Automerge), the counter of updated pull requests equals the   *)
(* number of pull requests merged, and that counter decides what the       *)
(* handler reports; a merge call that succeeds at the first attempt is the *)
(* only one made for its pull request.  With one pull request skipped and  *)
(* one merged at the first attempt, one merge call is made and 1 reported. *)
(***************************************************************************)
MergedResults == {i \in DOMAIN results : results[i].merged}

C13_UpdatedCountsMerged ==
    (caller = "onPush" /\ event.branch = <<"master">>) =>
       /\ MergeCalls # {} =>
             /\ "Automerge" \in pull.labels
             /\ pull.mergeable_state \in {"clean", "unstable"}
       /\ (MergeCalls # {} /\ trace[1].ok) => Cardinality(MergeCalls) = 1
       /\ updated = Cardinality(MergedResults)
       /\ \A i \in DOMAIN results : results[i].merged <=> results[i].how = "returned"
       /\ (pc = "exit" /\ idx >= 1) =>
             final = IF Cardinality(MergedResults) > 0 THEN "returned" ELSE "NoError"

C13_Witness ==
    /\ pc = "exit"
    /\ event.branch = RefMaster
    /\ results = <<[number |-> 2, how |-> "NoError", merged |-> FALSE],
                   [number |-> 1, how |-> "returned", merged |-> TRUE]>>
    /\ Cardinality(MergeCalls) = 1
    /\ updated = 1
    /\ final = "returned"

(***************************************************************************)
(* C14.  An event name outside push, status, pull_request and              *)
(* pull_request_review ends the invocation with exit code 1 before any     *)
(* handler runs and before any call of the platform; an invocation that    *)
(* ends with a NoError (a handler that returns ends with one too) exits    *)
(* with code 0; an invocation that ends with any other error exits with    *)
(* code 1.                                                                 *)
(***************************************************************************)
C14_ExitCodes ==
    /\ event.name \notin {"push", "status", "pull_request", "pull_request_review"} =>
          /\ pc \in {"run", "exit"}
          /\ caller = "none"
          /\ prList = <<>>
          /\ pull = NoPull
          /\ probeLog = <<>>
          /\ trace = <<>>
          /\ pc = "exit" => exitCode = 1 /\ final = "Error"
    /\ pc = "exit" =>
          /\ final \in {"NoError", "returned"} => exitCode = 0
          /\ final \in {"Error", "string"} => exitCode = 1
          /\ final \in {"NoError", "returned", "Error", "string"}
    /\ pc # "exit" => exitCode = -1 /\ final = "running"

C14_Witness ==
    /\ pc = "exit"
    /\ event.name = "issues"
    /\ envOK
    /\ exitCode = 1
    /\ final = "Error"

(***************************************************************************)
(* C15.  tryMerge never raises.  A call of the merge endpoint succeeds     *)
(* only with a response of status 200; a response of another status and a  *)
(* thrown error are both failed attempts, each consuming one of the 4      *)
(* attempts: after a failed attempt tryMerge waits for the next one or,    *)
(* after the fourth, returns false (automerge then throws "Merge failed"); *)
(* after a successful one it returns true.  No Error leaves tryMerge.      *)
(***************************************************************************)
C15_TryMergeNeverRaises ==
    /\ \A i \in MergeCalls :
          /\ trace[i].ok \in BOOLEAN
          /\ trace[i].ok <=> trace[i].res = "200"
    /\ MergeCalls # {} => prResult \in {"none", "returned", "string"}
    /\ (MergeCalls # {} /\ pc # "mergePR") => Cardinality(MergeCalls) = run + 1
    /\ (trace # <<>> /\ trace[Len(trace)].op = "pulls.merge") =>
          IF trace[Len(trace)].res = "200"
          THEN pc \in {"pr_done", "exit"} /\ prResult = "returned"
          ELSE IF Cardinality(MergeCalls) < 4
          THEN pc = "retry_delay" /\ prResult = "none"
          ELSE /\ Cardinality(MergeCalls) = 4
               /\ pc \in {"pr_done", "exit"}
               /\ prResult = "string"

C15_Witness ==
    /\ pc = "pr_done"
    /\ prResult = "returned"
    /\ Cardinality(MergeCalls) = 3
    /\ \E i, j, k \in MergeCalls :
          /\ i < j /\ j < k
          /\ trace[i].res = "throw"
          /\ trace[j].res = "405"
          /\ trace[k].res = "200"

(***************************************************************************)
(* C16.  Every call of the merge endpoint for a pull request, the first    *)
(* and every retry, carries the head commit hash that the last read of     *)
(* checkMergeability showed, also when an earlier read showed another      *)
(* one; no call carries another hash or none.                              *)
(***************************************************************************)
LastReadSha == probeLog[Len(probeLog)].sha

C16_MergePinnedToFinalRead ==
    \A i \in MergeCalls :
       /\ trace[i].sha \in {"sha-a", "sha-b"}
       /\ probeLog[Len(probeLog)].op = "read"
       /\ trace[i].sha = LastReadSha
       /\ trace[i].number = prList[idx]

C16_Witness ==
    /\ pc = "pr_done"
    /\ Cardinality(MergeCalls) >= 2
    /\ Len(probeLog) >= 3
    /\ probeLog[1].sha = "sha-a"
    /\ LastReadSha = "sha-b"
    /\ \A i \in MergeCalls : trace[i].sha = "sha-b"

(***************************************************************************)
(* C17.  mergeBase called with one ref returns that ref and runs no git    *)
(* command; called with no ref it raises an Error with the message         *)
(* "empty refs!", runs no git command, and returns neither null nor a      *)
(* TimeoutError.                                                           *)
(***************************************************************************)
C17_SingleRefAndEmptyRefs ==
    locator.pc = "done" =>
       /\ Len(locator.refs) = 1 =>
             /\ locator.result.kind = "value"
             /\ locator.result.value = locator.refs[1]
             /\ locator.result.cmds = 0
       /\ Len(locator.refs) = 0 =>
             /\ locator.result.kind = "Error"
             /\ locator.result.message = "empty refs!"
             /\ locator.result.cmds = 0
       /\ Len(locator.refs) >= 2 => locator.result.cmds >= 1

C17_Witness ==
    /\ locator.pc = "done"
    /\ locator.refs = <<>>
    /\ locator.result.kind = "Error"
    /\ locator.result.message = "empty refs!"

(***************************************************************************)
(* C18.  When HEAD and the branch have no common ancestor however deep the *)
(* history fetched, fetchUntilMergeBase never returns a base: every        *)
(* iteration ends with one fetch that deepens the history, and the call    *)
(* ends, with a TimeoutError unless a git command failed.  A TimeoutError  *)
(* is raised only once the budget of the caller has elapsed; the reduction *)
(* over the bases collected finding no base ends the call with an Error    *)
(* "failed to find common base", which is not a TimeoutError.              *)
(***************************************************************************)
C18_LocatorSafety ==
    /\ locator.disjoint =>
          /\ locator.result.kind # "value"
          /\ locator.pc \notin {"parents", "reduce"}
          /\ locator.bases = <<>>
          /\ locator.pc = "loop" => locator.fetches = locator.iterations
          /\ locator.result.kind = "TimeoutError" =>
                locator.fetches = locator.iterations
    /\ locator.result.kind = "TimeoutError" =>
          /\ locator.pc = "done"
          /\ locator.now >= locator.maxTime
          /\ locator.reduced = "none"
    /\ locator.reduced = "null" =>
          /\ locator.result.kind = "Error"
          /\ locator.result.message = "failed to find common base"

C18_NoAncestorEndsInTimeout ==
    /\ []C18_LocatorSafety
    /\ locator.disjoint ~>
          /\ locator.pc = "done"
          /\ \/ locator.result.kind = "TimeoutError"
             \/ /\ locator.result.kind = "Error"
                /\ locator.result.message = "command failed"

C18_Witness ==
    /\ locator.disjoint
    /\ locator.pc = "done"
    /\ locator.result.kind = "TimeoutError"
    /\ locator.maxTime = 3
    /\ locator.iterations = 3
    /\ locator.fetches = 3

(***************************************************************************)
(* C19.  As claimed: two pull requests with the same label set, the same   *)
(* base ref and the same verdict (mergeable and mergeable_state) get the   *)
(* same outcome, skip or eligible, and the same merge method.              *)
(***************************************************************************)
SameTuple(p, q) ==
    /\ p.labels = q.labels
    /\ p.base = q.base
    /\ p.mergeable = q.mergeable
    /\ p.mergeable_state = q.mergeable_state

C20_OtherBaseIsMerged ==
    (/\ PastProcessPR
     /\ "Automerge" \in pull.labels
     /\ pull.mergeable = "true"
     /\ pull.mergeable_state = "clean"
     /\ pull.base # <<"master">>
     /\ ~IsReleaseBase(pull.base))
        => /\ prResult # "NoError"
           /\ \A i \in MergeCalls : trace[i].method = "merge"
           /\ PREnded => MergeCalls # {}

(***************************************************************************)
(* C21.  In a rollup check that finds a conflict the comment is left out   *)
(* exactly when the head commit carries more than one status of this       *)
(* system's context and the most recent of them has the state failure or   *)
(* error; otherwise one comment is created, before the status.  The call   *)
(* never creates more than one comment.                                    *)
(***************************************************************************)
OwnStatusesOn(sha) ==
    SelectSeq(statuses[sha],
              LAMBDA s : s.context = "Sportsbot: release to master automerge")

CommentSuppressedFor(mine) ==
    Len(mine) > 1 /\ mine[1].state \in {"failure", "error"}

C21_CommentSuppressedIff ==
    /\ pc \in {"createComment", "createStatus"} =>
          myStatuses = OwnStatusesOn(pull.sha)
    /\ pc = "createComment" =>
          /\ mergeMsg = "text"
          /\ ~CommentSuppressedFor(myStatuses)
          /\ OpsOf("comment") = {}
          /\ OpsOf("createStatus") = {}
    /\ (mergeMsg = "text" /\ pc \in {"createStatus", "check_returned"}) =>
          /\ CommentSuppressedFor(myStatuses) <=> OpsOf("comment") = {}
          /\ ~CommentSuppressedFor(myStatuses) => Cardinality(OpsOf("comment")) = 1
          /\ \A c \in OpsOf("comment"), s \in OpsOf("createStatus") : c < s
          /\ pc = "check_returned" =>
                checks[Len(checks)].commented = ~CommentSuppressedFor(myStatuses)

C21_Witness ==
    /\ pc = "check_returned"
    /\ mergeMsg = "text"
    /\ Len(myStatuses) = 2
    /\ myStatuses[1].state = "error"
    /\ OpsOf("comment") = {}
    /\ Cardinality(OpsOf("createStatus")) = 1
    /\ Len(checks) = 2
    /\ checks[1].commented
    /\ ~checks[2].commented

(***************************************************************************)
(* C22.  A pull request whose last read by checkMergeability shows         *)
(* mergeable null ends processPR with the skip, whatever mergeable_state   *)
(* that read shows, and the merge endpoint is not invoked for it.          *)
(***************************************************************************)
C22_UnknownVerdictSkips ==
    (PastProcessPR /\ pull.mergeable = "null")
        => /\ PREnded
           /\ prResult = "NoError"
           /\ MergeCalls = {}

(***************************************************************************)
(* C23.  For a pull request into a release branch, when the head branch    *)
(* was merged into master and master was pushed and all the attempts of    *)
(* tryMerge then failed, automerge throws (a string, not a NoError) and    *)
(* does nothing more: the last effect is the last call of the merge        *)
(* endpoint, no git command follows the push, no status and no comment is  *)
(* created.  Master stays pushed and the pull request stays unmerged.      *)
(***************************************************************************)
MasterPushed == \E p \in GitCallsOf("push") : trace[p].ret = "ok"

PullMerged == \E i \in MergeCalls : trace[i].ok

TryMergeExhausted == Cardinality(MergeCalls) = 4 /\ ~PullMerged

C23_PartialFailureNotRolledBack ==
    (pull # NoPull /\ IsReleaseBase(pull.base) /\ TryMergeExhausted)
        => /\ PREnded
           /\ prResult = "string"
           /\ MasterPushed
           /\ ~PullMerged
           /\ trace[Len(trace)].op = "pulls.merge"
           /\ \A p \in GitCallsOf("push"), i \in DOMAIN trace :
                 i > p => trace[i].op \in {"pulls.merge", "delay"}
           /\ Cardinality(GitCallsOf("push")) = 1
           /\ Cardinality(GitCallsOf("merge")) = 1
           /\ OpsOf("createStatus") = {}
           /\ OpsOf("comment") = {}

C23_Witness ==
    /\ pc = "pr_done"
    /\ caller = "onPR"
    /\ pull # NoPull
    /\ pull.base = RefReleases
    /\ prResult = "string"
    /\ MasterPushed
    /\ TryMergeExhausted
    /\ trace[Len(trace)].op = "pulls.merge"

(***************************************************************************)
(* C24.  For a pull request whose base is master, automerge makes only the *)
(* calls of the merge endpoint, with the delays between them: no function  *)
(* of git.ts runs (the remote and the configuration stay as they are), no  *)
(* status is listed or created, and no comment is posted.  When processPR  *)
(* ends with the skip, nothing at all was done for the pull request: none  *)
(* of these effects and no call of the merge endpoint.                     *)
(***************************************************************************)
GitPositions ==
    {"setGitRemoteToAppPermission", "canMergeCleanly", "listStatusesForRef",
     "createComment", "createStatus", "merge", "push"}

C24_MasterOnlyMerges ==
    /\ (pull # NoPull /\ pull.base = <<"master">>) =>
          /\ pc \notin GitPositions
          /\ \A i \in DOMAIN trace : trace[i].op \in {"pulls.merge", "delay"}
          /\ mergeMsg = "unset"
          /\ myStatuses = <<>>
    /\ (PastProcessPR /\ prResult = "NoError") =>
          /\ PREnded
          /\ trace = <<>>
          /\ mergeMsg = "unset"
          /\ myStatuses = <<>>

C24_Witness ==
    /\ pc = "pr_done"
    /\ caller = "onPRReview"
    /\ prResult = "returned"
    /\ pull # NoPull
    /\ pull.base = RefMaster
    /\ pull.head = RefFeature
    /\ Len(trace) = 3
    /\ trace[1].op = "pulls.merge"
    /\ trace[2].op = "delay"
    /\ trace[3].op = "pulls.merge"
    /\ trace[3].ok

(***************************************************************************)
(* C25.  In a push batch every pull request whose processing raised        *)
(* something other than the skip, the strings thrown by automerge for a    *)
(* failed merge included, has left an error-level log entry by the time    *)
(* the batch goes on.                                                      *)
(***************************************************************************)
FailedResults == {i \in DOMAIN results : results[i].how \in {"Error", "string"}}

C25_BatchFailuresAreLogged ==
    caller = "onPush" => errorLog >= Cardinality(FailedResults)

(***************************************************************************)
(* C26.  In a push batch at most one asynchronous operation is running at  *)
(* any time, so at most one git primitive: it is the call the invocation   *)
(* is waiting for, made for the pull request being processed.  No          *)
(* operation of a pull request (its reads and delays, rollup check, merge  *)
(* into master, push, merge attempts and their sleeps) is still running    *)
(* when the first read of the next pull request starts, and the pull       *)
(* requests before the one being processed all have their result.          *)
(***************************************************************************)
RunningGit ==
    {c \in calls.running :
        c.op \in {"setGitRemoteToAppPermission", "canMergeCleanly", "merge", "push"}}

C26_OneAtATime ==
    /\ Cardinality(calls.running) <= 1
    /\ Cardinality(RunningGit) <= 1
    /\ \A c \in calls.running : c.pr = idx /\ c.op = pc
    /\ (idx >= 1 /\ pc # "exit") => Len(results) = idx - 1
    /\ pc = "exit" => calls.running = {}

C26_Witness ==
    /\ idx = 2
    /\ event.branch = RefReleases
    /\ calls.running = {[op |-> "checkMergeability", pr |-> 2, n |-> 0]}
    /\ Len(results) = 1
    /\ results[1].merged

(***************************************************************************)
(* C27.  In the automerge that merges the pull request into the release    *)
(* branch first, the merge of the head branch into master and the push of  *)
(* master are made only after an attempt of the merge sequence succeeded,  *)
(* and when all four attempts failed automerge throws "Merge failed" and   *)
(* master is neither merged into nor pushed.                               *)
(***************************************************************************)
C27_MasterAfterReleaseMerge ==
    (caller = "alt" /\ IsReleaseBase(pull.base)) =>
       /\ \A g \in GitCallsOf("merge") \cup GitCallsOf("push") :
             \E m \in MergeCalls : m < g /\ trace[m].ok
       /\ TryMergeExhausted =>
             /\ prResult = "string"
             /\ GitCallsOf("merge") = {}
             /\ GitCallsOf("push") = {}

(***************************************************************************)
(* C28.  fetchUntilMergeBase returns a base only from an iteration in      *)
(* which every parent of the merge commits has a common ancestor with the  *)
(* branch; the value returned is the reduction of all the bases collected  *)
(* in that iteration: the base of HEAD and the base of every parent, each  *)
(* once.  An iteration in which a parent has none returns nothing, and     *)
(* every iteration that does not end the call makes exactly one fetch,     *)
(* which deepens the history by 10 commits, before the next one starts     *)
(* with no base collected.                                                 *)
(***************************************************************************)
BasesOf(seq) == {seq[i] : i \in DOMAIN seq}

C28_NoBaseFromIncompleteIteration ==
    /\ (\E i \in DOMAIN locator.found : locator.found[i] \in {"none", "error"}) =>
          /\ locator.pc # "reduce"
          /\ locator.result.kind # "value"
          /\ locator.reduced = "none"
    /\ (locator.pc = "reduce" \/ locator.result.kind = "value") =>
          /\ Len(locator.bases) >= 1
          /\ BasesOf(locator.bases) = {locator.bases[1]} \cup BasesOf(locator.found)
          /\ Cardinality(BasesOf(locator.bases)) = Len(locator.bases)
    /\ locator.result.kind = "value" =>
          /\ locator.reduced = "value"
          /\ locator.fetches = locator.iterations - 1
          /\ Len(locator.bases) = 1 => locator.result.value = locator.bases[1]
    /\ locator.pc = "loop" =>
          /\ locator.fetches = locator.iterations
          /\ locator.iterations > 0 => locator.why \in {"HEAD", "parent"}
    /\ locator.pc = "base" => locator.bases = <<>> /\ locator.found = <<>>
    /\ locator.pc \in {"base", "parents", "reduce", "deepen"} =>
          locator.fetches = locator.iterations - 1
    /\ locator.depth = 10 * locator.fetches

C28_Witness ==
    /\ locator.pc = "done"
    /\ locator.result.kind = "value"
    /\ locator.why = "parent"
    /\ locator.iterations = 2
    /\ locator.fetches = 1
    /\ locator.depth = 10
    /\ Len(locator.found) = 2
    /\ Len(locator.bases) = 2

\* the lines of rev-list that name a merge commit: the commit and more than
\* one parent
IsMergeLine(line) == Len(line) > 2

\* what the claim expects of every line: the parents other than the first
NonFirstParents(lines) ==
    SelectSeq([i \in DOMAIN lines |-> SubSeq(lines[i], 3, Len(lines[i]))],
              LAMBDA ps : ps # <<>>)

\* every parent of every merge commit, in the order of the lines
AllParentsOfMerges(lines) ==
    [j \in 1..Cardinality({i \in DOMAIN lines : IsMergeLine(lines[i])}) |->
        LET i == CHOOSE i \in DOMAIN lines :
                   /\ IsMergeLine(lines[i])
                   /\ Cardinality({h \in 1..i : IsMergeLine(lines[h])}) = j
        IN  [k \in 1..(Len(lines[i]) - 1) |-> lines[i][k + 1]]]

\* C29 as stated: mergeCommits returns, for every commit of the range with
\* more than one parent, its parents other than the first, and nothing for a
\* commit with a single parent; these are the parents the locator checks.
C29_NonFirstParentsOnly ==
    locator.pc = "done" =>
       /\ locator.parents = NonFirstParents(locator.lines)
       /\ locator.checked = flat(NonFirstParents(locator.lines))

\* C29: mergeCommits returns, for every commit of the range with more than
\* one parent, all its parents, the first included, in the order rev-list
\* prints them, and nothing for a commit with a single parent or for the
\* empty output; the locator checks the concatenation of these lists.
C29_AllParentsOfMergeCommits ==
    locator.pc = "done" =>
       /\ locator.parents = AllParentsOfMerges(locator.lines)
       /\ locator.checked = flat(AllParentsOfMerges(locator.lines))
       /\ (\A i \in DOMAIN locator.lines : ~IsMergeLine(locator.lines[i]))
             => locator.checked = <<>>

\* a range of a merge commit and an ordinary commit: the first parent of the
\* merge commit is among the parents the locator checks
C29_Witness ==
    /\ locator.pc = "done"
    /\ Len(locator.lines) = 2
    /\ IsMergeLine(locator.lines[1])
    /\ ~IsMergeLine(locator.lines[2])
    /\ locator.lines[1][2] # locator.lines[1][3]
    /\ locator.checked = <<locator.lines[1][2], locator.lines[1][3]>>

\* C30: mergeBase over two or more refs runs git merge-base on the first two
\* refs, then on the output of each command and the next ref, and stops at
\* the first command that fails; it returns null exactly when a command it
\* ran exited with status 1, raises an error exactly when a command exited
\* with another status or could not be started, and otherwise returns the
\* output of the last command.
C30_PairwiseAndNullOnlyOnStatusOne ==
    (locator.pc = "done" /\ Len(locator.refs) >= 2) =>
       LET ran == locator.ran
           res == locator.result
       IN  /\ Len(ran) >= 1
           /\ Len(ran) <= Len(locator.refs) - 1
           /\ res.cmds = Len(ran)
           /\ ran[1].a = locator.refs[1]
           /\ \A i \in DOMAIN ran :
                 /\ ran[i].b = locator.refs[i + 1]
                 /\ i > 1 => ran[i].a = ran[i - 1].out
                 /\ i < Len(ran) => ran[i].res = "0"
           /\ res.kind = "null" <=> (\E i \in DOMAIN ran : ran[i].res = "1")
           /\ res.kind = "Error"
                 <=> (\E i \in DOMAIN ran : ran[i].res \notin {"0", "1"})
           /\ res.kind = "value"
                 <=> /\ Len(ran) = Len(locator.refs) - 1
                     /\ \A i \in DOMAIN ran : ran[i].res = "0"
           /\ res.kind = "value" => res.value = ran[Len(ran)].out

\* three refs: the first command succeeds and the second, run on its output
\* and the third ref, exits with status 1
C30_Witness ==
    /\ locator.pc = "done"
    /\ Len(locator.refs) = 3
    /\ Len(locator.ran) = 2
    /\ locator.ran[1].res = "0"
    /\ locator.ran[2].res = "1"
    /\ locator.ran[2].a = locator.ran[1].out
    /\ locator.result.kind = "null"

\* the commands of the last call that ran cmd
CmdsOf(cmd) == {i \in DOMAIN locator.last.cmds : locator.last.cmds[i].cmd = cmd}

\* the result of the merge command of canMergeCleanly, once it was attempted
NoCommitMerge == locator.last.cmds[CHOOSE i \in CmdsOf("merge --no-commit") : TRUE]

\* C31 as stated: once the no-commit merge was attempted, canMergeCleanly
\* runs merge --abort exactly once, whether the merge succeeded or failed,
\* and the text it returns is the output of a merge command that failed.
C31_AbortExactlyOnce ==
    (locator.last.fn = "canMergeCleanly" /\ CmdsOf("merge --no-commit") # {}) =>
       /\ Cardinality(CmdsOf("merge --abort")) = 1
       /\ locator.last.ret = "text" => isExitError(NoCommitMerge.res)

\* C32: abortMerge returns normally exactly when its abort command exited
\* with status 0 or with status 128 (no merge in progress); with any other
\* exit status, or when the command could not be started, it raises.  Calls
\* in a row whose commands exit with 0 or 128 therefore all succeed.
C32_AbortIsIdempotentCleanup ==
    \A i \in DOMAIN locator.aborts :
       LET a == locator.aborts[i] IN
       /\ a.res \in {"0", "128"} <=> a.ret = "ok"
       /\ a.res \in {"1", "spawn"} <=> a.ret = "throw"

\* three calls in a row: the first aborts a merge, the next two find no merge
\* in progress, and all three return
C32_Witness ==
    /\ Len(locator.aborts) = MaxAborts
    /\ locator.aborts[1] = [res |-> "0", ret |-> "ok"]
    /\ \A i \in 2..MaxAborts : locator.aborts[i] = [res |-> "128", ret |-> "ok"]

\* the reads of the prober and the calls of the merge endpoint for the pull
\* request being processed
ReadsOfPull == Cardinality({i \in DOMAIN probeLog : probeLog[i].op = "read"})
MergeCallsOfPull == Cardinality({i \in DOMAIN trace : trace[i].op = "pulls.merge"})

\* C33: when every call returns, every invocation ends: the process exits
\* with code 0 or 1.  Until then a push batch holds at most MAX_PR_COUNT pull
\* requests, and each pull request is read at most DEFAULT_RETRIES + 1 times
\* by checkMergeability and gets at most MERGE_RETRIES + 1 calls of the merge
\* endpoint.
C33_TerminatesWithinBounds ==
    /\ <>(pc = "exit" /\ final # "running" /\ exitCode \in {0, 1})
    /\ [](/\ Len(prList) <= MAX_PR_COUNT
          /\ idx <= Len(prList)
          /\ ReadsOfPull <= DEFAULT_RETRIES + 1
          /\ MergeCallsOfPull <= MERGE_RETRIES + 1
          /\ pc = "exit" => (final # "running" /\ exitCode \in {0, 1}))

\* a push batch that ended after its last pull request used every read and
\* every merge attempt
C33_Witness ==
    /\ pc = "exit"
    /\ caller = "onPush"
    /\ idx = Len(prList)
    /\ idx = MaxPRs
    /\ ReadsOfPull = DEFAULT_RETRIES + 1
    /\ MergeCallsOfPull = MERGE_RETRIES + 1
    /\ final = "NoError"

\* C34: every change this system makes to the statuses of a commit is made by
\* createStatus on a conflict: one status of state failure with the fixed
\* context is put in front of the statuses of the head commit of the pull
\* request processed, and every status that existed stays as it was.  A
\* rollup check that finds no conflict writes nothing, so the most recent
\* status of the context on that commit stays.
C34_OnlyFailureAppended ==
    [][(foreign' = foreign /\ statuses' # statuses) =>
          /\ pc = "createStatus"
          /\ mergeMsg # "null"
          /\ pull # NoPull
          /\ statuses' = [statuses EXCEPT
                             ![pull.sha] = <<[context |-> "Sportsbot: release to master automerge",
                                              state |-> "failure"]>> \o @]
          /\ \A sha \in Shas :
                /\ Len(statuses'[sha]) >= Len(statuses[sha])
                /\ \A k \in DOMAIN statuses[sha] :
                      statuses'[sha][Len(statuses'[sha]) - Len(statuses[sha]) + k]
                         = statuses[sha][k]]_vars

\* a check that found a conflict wrote a failure on the head commit, and the
\* next check of the same commit found no conflict: the failure is still the
\* most recent status of the commit
C34_Witness ==
    /\ pc = "check_returned"
    /\ foreign = 0
    /\ Len(checks) = 2
    /\ checks[1].conflict /\ checks[1].sha = pull.sha
    /\ ~checks[2].conflict /\ checks[2].sha = pull.sha
    /\ mergeMsg = "null"
    /\ statuses[pull.sha] = <<Failure(statusContext)>>

\* the events the claim lists as filtered out
FilteredOut(ev) ==
    \/ /\ ev.name = "pull_request"
       /\ ev.action \notin {"labeled", "unlabeled", "synchronize", "opened", "edited",
                            "ready_for_review", "reopened", "unlocked"}
    \/ /\ ev.name = "pull_request_review"
       /\ ~(ev.action = "submitted" /\ ev.review = "approved")
    \/ /\ ev.name = "push"
       /\ (~ev.refIsBranch \/ ~ev.hasOwner)
    \/ ev.name = "status"

\* C35: an invocation with its inputs present whose event is filtered out
\* goes from run to its handler and from there to the exit with code 0: it
\* never authenticates, lists or reads a pull request, and runs no git
\* command or platform call.
C35_FilteredEventsSkipFirst ==
    (envOK /\ FilteredOut(event)) =>
       /\ pc \in {"run", HandlerOf(event.name), "exit"}
       /\ caller = "none"
       /\ prList = <<>>
       /\ pull = NoPull
       /\ probeLog = <<>>
       /\ trace = <<>>
       /\ errorLog = 0
       /\ pc = "exit" => (exitCode = 0 /\ final \in {"NoError", "returned"})

\* a review that was submitted but does not approve has ended in the skip
C35_Witness ==
    /\ pc = "exit"
    /\ envOK
    /\ event.name = "pull_request_review"
    /\ event.action = "submitted"
    /\ event.review = "commented"
    /\ exitCode = 0

\* C36: when master was pushed after the rollup, the commit of the head
\* branch that the rollup fetched and merged into master is the commit the
\* calls of the merge endpoint that follow are pinned to.
C36_RollupCommitIsPinnedCommit ==
    \A f \in GitCallsOf("canMergeCleanly"), p \in GitCallsOf("push"), i \in MergeCalls :
       (trace[p].ret = "ok" /\ f < p /\ p < i) => trace[f].tip = trace[i].sha

\* the merge commands the last call ran
MergeCmds == CmdsOf("merge --no-commit") \cup CmdsOf("merge")

\* C37 as stated: canMergeCleanly and merge return null only when their git
\* merge command exited with status 0; after any failure of that command,
\* the failure to start it included, they return text or raise.
C37_NullOnlyAfterExitZero ==
    (locator.last.fn \in {"canMergeCleanly", "merge"} /\ locator.last.ret = "null") =>
       /\ MergeCmds # {}
       /\ \A i \in MergeCmds : locator.last.cmds[i].res = "0"

\* C38 as stated: in a push batch whose first release pull request was rolled
\* into master and merged, a later run of setGitRemoteToAppPermission, which
\* finds the section already removed, succeeds when its commands were started
\* and the remote was set, so the pull request goes on to the rollup check.
C38_LaterRunsSucceed ==
    (/\ caller = "onPush"
     /\ idx >= 2
     /\ results[1].merged
     /\ locator.runs >= 2
     /\ locator.absent
     /\ locator.last.setRemote = "0"
     /\ locator.last.removeSection # "spawn") => locator.last.ret = "ok"

\* the pull requests of the batch whose processing returned
ReturnedResults == {i \in DOMAIN results : results[i].how = "returned"}

\* C39: in a push batch the counter updated is the number of pull requests
\* processed so far whose processing returned without raising, whether or
\* not a pull request was merged; after the whole batch the handler throws
\* the NoError of the skip exactly when the counter is 0, and returns
\* otherwise.
C39_UpdatedCountsReturns ==
    caller = "onPush" =>
       /\ updated = Cardinality(ReturnedResults)
       /\ \A i \in DOMAIN results : results[i].merged => results[i].how = "returned"
       /\ (pc = "exit" /\ idx >= 1) =>
             /\ Len(results) = Len(prList)
             /\ final = "NoError" <=> updated = 0
             /\ final = "returned" <=> updated > 0

\* a batch of one release pull request that ended blocked by the rollup
\* check: the status was written, nothing was merged, and 1 is reported
C39_Witness ==
    /\ pc = "exit"
    /\ caller = "onPush"
    /\ Len(results) = 1
    /\ results[1].how = "returned"
    /\ ~results[1].merged
    /\ OpsOf("createStatus") # {}
    /\ MergeCalls = {}
    /\ GitCallsOf("push") = {}
    /\ updated = 1
    /\ final = "returned"

====
